---------------------------- MODULE Spec2Model ----------------------------
(***************************************************************************)
(* PandaPowerConverter (power_grid_model_io/converters/                    *)
(* pandapower_converter.py): the identifier registry (idx, idx_lookup,     *)
(* next_idx), the forward conversion pass that fills it, the sidecar       *)
(* (extra_info) it emits, the registry rebuilt from that sidecar, the       *)
(* switch state, tap size and attribute resolvers, and the reverse pass:   *)
(* the output aggregators and the accumulation of the node powers.         *)
(*                                                                         *)
(* Representation                                                          *)
(*   Python None            the string "None"                              *)
(*   dict                   a sequence of [key, val] entries in insertion  *)
(*                          order (Python dicts iterate in that order)     *)
(*   dict key (t, name)     the pair <<t, name>>                           *)
(*   dict key "t" (a str)   the 1-tuple <<t>>, which differs from every    *)
(*                          pair as "t" differs from every tuple           *)
(*   pd.Series              a sequence of <<label, value>> rows            *)
(*   pd.DataFrame           a sequence of row records, the field index     *)
(*                          being the row's label                         *)
(*   raised exception       the err field of the converter state           *)
(*   Optional[float]        <<>> for None, <<x>> for a value               *)
(*   x / 1e6, x * 1e-6      [num |-> x, den |-> 1000000] (Quotient)        *)
(*   float sums             exact integer sums (W, VAR)                    *)
(***************************************************************************)
EXTENDS Integers, Sequences, FiniteSets, TLC

VARIABLES
    pp_data,      \* self.pp_data: table name -> DataFrame
    pgm_data,     \* self.pgm_data: component name -> record array
    idx,          \* self.idx: key -> Series(pgm id, index = pp index)
    idx_lookup,   \* self.idx_lookup: key -> Series(pp index, index = pgm id)
    next_idx,     \* self.next_idx
    pgm_output_data,  \* self.pgm_output_data: component name -> result record array
    pp_output_data,   \* self.pp_output_data: table name -> output DataFrame
    pgm_nodes_lookup, \* self.pgm_nodes_lookup: DataFrame indexed on the pgm node ids
    std_types,    \* self._std_types: table name -> type name -> attributes
    extra_info,   \* the dict the caller made for the last pass: pgm id -> id_reference
    passes,       \* number of _parse_data calls made on this converter
    last_call     \* the last call made: its arguments, return value, exception

vars ==
    <<pp_data, pgm_data, idx, idx_lookup, next_idx, pgm_output_data, pp_output_data,
      pgm_nodes_lookup, std_types, extra_info, passes, last_call>>

None == "None"

-----------------------------------------------------------------------------
(* Bounds *)

MaxRows == 2      \* rows per source table

MaxPasses == 2    \* _parse_data calls per converter

MaxIds == 2       \* ids handed out by direct _generate_ids calls

MaxSwitches == 2  \* rows of the switch table the switch states are resolved on

-----------------------------------------------------------------------------
(* dict *)

DictKeys(d) == {d[i].key : i \in DOMAIN d}

DictHas(d, k) == \E i \in DOMAIN d : d[i].key = k

DictGet(d, k) == d[CHOOSE i \in DOMAIN d : d[i].key = k].val

\* d[k] = v: an existing key keeps its position, a new key is appended
DictSet(d, k, v) ==
    IF DictHas(d, k)
    THEN [i \in DOMAIN d |-> IF d[i].key = k THEN [key |-> k, val |-> v] ELSE d[i]]
    ELSE Append(d, [key |-> k, val |-> v])

-----------------------------------------------------------------------------
(* pd.Series *)

\* pd.Series(values, index=index)
MakeSeries(values, index) == [i \in DOMAIN values |-> <<index[i], values[i]>>]

SeriesIndex(s) == [i \in DOMAIN s |-> s[i][1]]

SeriesValues(s) == [i \in DOMAIN s |-> s[i][2]]

\* label in series
SeriesContains(s, label) == \E i \in DOMAIN s : s[i][1] = label

\* the values stored under one label, in row order
SeriesLoc(s, label) == SeriesValues(SelectSeq(s, LAMBDA row : row[1] = label))

RECURSIVE Flatten(_)
Flatten(ss) == IF ss = <<>> THEN <<>> ELSE Head(ss) \o Flatten(Tail(ss))

\* series[labels] for a list of labels: label based, every row of each label in
\* turn; a label that is not in the index raises KeyError
SeriesGetItem(s, labels) ==
    IF \E i \in DOMAIN labels : ~SeriesContains(s, labels[i])
    THEN [err |-> "KeyError", val |-> <<>>]
    ELSE [err |-> "ok", val |-> Flatten([i \in DOMAIN labels |-> SeriesLoc(s, labels[i])])]

\* frame[column]
Column(frame, column) == [i \in DOMAIN frame |-> frame[i][column]]


-----------------------------------------------------------------------------
(* Source datasets (PandaPowerData) the passes are run on *)

Tables == {"bus", "line", "ext_grid", "load", "shunt", "trafo", "sgen", "trafo3w", "switch"}

\* The sets of non-empty device tables of the datasets
Profiles ==
    { {},
      {"line", "ext_grid", "load"},
      {"load", "switch"},
      {"shunt", "trafo", "sgen", "trafo3w", "switch"} }

\* Row labels of an n-row table: descending odd numbers, so that a label is
\* neither the row's position nor (in general) the id the row is given
SourceIndex(n) == [i \in 1..n |-> 2 * (n - i) + 1]

\* The bus a device row refers to: a row of the bus table when there is one
BusRef(i, nb) == IF nb = 0 THEN 1 ELSE SourceIndex(nb)[((i - 1) % nb) + 1]

\* const_i_percent, const_z_percent, scaling, p_mw, q_mvar of the load rows
LoadSamples ==
    << [const_i_percent |-> 50, const_z_percent |-> 30, scaling |-> 2, p_mw |-> 3, q_mvar |-> 1],
       [const_i_percent |-> 0, const_z_percent |-> 0, scaling |-> 1, p_mw |-> 2, q_mvar |-> 5],
       [const_i_percent |-> 20, const_z_percent |-> 80, scaling |-> 1, p_mw |-> 1, q_mvar |-> 0],
       [const_i_percent |-> 0, const_z_percent |-> 0, scaling |-> 3, p_mw |-> 4, q_mvar |-> 2] >>

\* et of the switch rows: "l" line, "b" bus to bus, "t" trafo, "t3" trafo3w
SwitchKinds == <<"l", "b", "t", "b", "t3">>

Cycle(samples, i) == samples[((i - 1) % Len(samples)) + 1]

Rows(t, n, nb) ==
    [i \in 1..n |->
        LET index == SourceIndex(n)[i] IN
        CASE t = "bus" -> [index |-> index]
          [] t = "line" ->
                [index |-> index, from_bus |-> BusRef(i, nb), to_bus |-> BusRef(i + 1, nb),
                 in_service |-> (i # 2)]
          [] t \in {"ext_grid", "shunt", "sgen"} -> [index |-> index, bus |-> BusRef(i, nb)]
          [] t = "load" ->
                LET s == Cycle(LoadSamples, i) IN
                [index |-> index, bus |-> BusRef(i, nb), p_mw |-> s.p_mw, q_mvar |-> s.q_mvar,
                 const_i_percent |-> s.const_i_percent, const_z_percent |-> s.const_z_percent,
                 scaling |-> s.scaling]
          [] t = "trafo" ->
                [index |-> index, hv_bus |-> BusRef(i, nb), lv_bus |-> BusRef(i + 1, nb),
                 in_service |-> (i # 2)]
          [] t = "trafo3w" ->
                [index |-> index, hv_bus |-> BusRef(i, nb), mv_bus |-> BusRef(i + 1, nb),
                 lv_bus |-> BusRef(i + 2, nb), in_service |-> (i # 2)]
          [] t = "switch" ->
                [index |-> index, et |-> Cycle(SwitchKinds, i), bus |-> BusRef(i, nb),
                 element |-> BusRef(i + 1, nb), closed |-> (i % 2 = 0)] ]

Network(nb, profile, n) ==
    [t \in Tables |->
        IF t = "bus" THEN Rows(t, nb, nb) ELSE IF t \in profile THEN Rows(t, n, nb) ELSE <<>>]

\* The bus table is empty or has MaxRows rows, the non-empty device tables have
\* one row or MaxRows rows
Networks ==
    {Network(nb, profile, n) : nb \in {0, MaxRows}, profile \in Profiles, n \in {1, MaxRows}}

\* A dataset with MaxRows buses whose rows of one device table refer to a bus
\* that the bus table does not have (label 0; the labels of the rows are odd)
Dangling(profile, n, table) ==
    [t \in Tables |->
        IF t = table
        THEN [i \in DOMAIN Network(MaxRows, profile, n)[t] |->
                 [Network(MaxRows, profile, n)[t][i] EXCEPT !.bus = 0]]
        ELSE Network(MaxRows, profile, n)[t]]

DanglingNetworks ==
    {Dangling(profile, 1, table) :
        profile \in Profiles, table \in {"ext_grid", "load", "shunt", "sgen"}}

NoTables == [t \in {} |-> <<>>]

\* d[k] = v on a mapping whose order of keys is never read
Put(d, k, v) == (k :> v) @@ d

-----------------------------------------------------------------------------
(* The converter object and its registry *)

\* self, with the exception raised (err) and the value returned (ret) by the
\* method being run
Self ==
    [pp_data |-> pp_data, pgm_data |-> pgm_data, idx |-> idx, idx_lookup |-> idx_lookup,
     next_idx |-> next_idx, pgm_output_data |-> pgm_output_data,
     pp_output_data |-> pp_output_data, pgm_nodes_lookup |-> pgm_nodes_lookup,
     std_types |-> std_types, err |-> "ok", ret |-> <<>>]

Raise(c, e) == [c EXCEPT !.err = e]

\* _generate_ids storing the reverse map the wrong way round
generate_ids_lookup_swapped(c, pp_table, pp_idx, name) ==
    LET key == <<pp_table, name>>
        n_objects == Len(pp_idx)
        pgm_idx == [i \in 1..n_objects |-> c.next_idx + i - 1]
    IN  IF DictHas(c.idx_lookup, key)
        THEN Raise(c, "AssertionError")
        ELSE [c EXCEPT !.idx = DictSet(@, key, MakeSeries(pgm_idx, pp_idx)),
                       !.idx_lookup = DictSet(@, key, MakeSeries(pgm_idx, pp_idx)),
                       !.next_idx = @ + n_objects,
                       !.ret = pgm_idx]

\* _generate_ids without self.next_idx += n_objects
generate_ids_no_advance(c, pp_table, pp_idx, name) ==
    LET key == <<pp_table, name>>
        n_objects == Len(pp_idx)
        pgm_idx == [i \in 1..n_objects |-> c.next_idx + i - 1]
    IN  IF DictHas(c.idx_lookup, key)
        THEN Raise(c, "AssertionError")
        ELSE [c EXCEPT !.idx = DictSet(@, key, MakeSeries(pgm_idx, pp_idx)),
                       !.idx_lookup = DictSet(@, key, MakeSeries(pp_idx, pgm_idx)),
                       !.ret = pgm_idx]

\* _generate_ids(pp_table, pp_idx, name)
generate_ids(c, pp_table, pp_idx, name) ==
    LET key == <<pp_table, name>>
        n_objects == Len(pp_idx)
        pgm_idx == [i \in 1..n_objects |-> c.next_idx + i - 1]
    IN  IF DictHas(c.idx_lookup, key)
        THEN Raise(c, "AssertionError")
        ELSE [c EXCEPT !.idx = DictSet(@, key, MakeSeries(pgm_idx, pp_idx)),
                       !.idx_lookup = DictSet(@, key, MakeSeries(pp_idx, pgm_idx)),
                       !.next_idx = @ + n_objects,
                       !.ret = pgm_idx]

\* _get_ids(pp_table, pp_idx, name)
get_ids(c, pp_table, pp_idx, name) ==
    LET key == <<pp_table, name>> IN
    IF ~DictHas(c.idx, key)
    THEN [err |-> "KeyError", val |-> <<>>]
    ELSE SeriesGetItem(DictGet(c.idx, key), pp_idx)

\* _get_pp_ids(pp_table, pgm_idx, name). Index.equals is False for an argument
\* that is no pd.Index, and the label lookup is then taken for an equal list
\* of ids too; it returns the same values, the ids of a group being distinct.
get_pp_ids(c, pp_table, pgm_idx, name) ==
    LET key == <<pp_table, name>> IN
    IF ~DictHas(c.idx_lookup, key)
    THEN [err |-> "KeyError", val |-> <<>>]
    ELSE IF SeriesIndex(DictGet(c.idx_lookup, key)) = pgm_idx
    THEN [err |-> "ok", val |-> SeriesValues(DictGet(c.idx_lookup, key))]
    ELSE SeriesGetItem(DictGet(c.idx_lookup, key), pgm_idx)

\* get_id(pp_table, pp_idx, name): self.idx[(pp_table, name)][pp_idx]
get_id(c, pp_table, pp_idx, name) ==
    LET key == <<pp_table, name>> IN
    IF ~DictHas(c.idx, key) \/ ~SeriesContains(DictGet(c.idx, key), pp_idx)
    THEN [err |-> "KeyError", val |-> <<>>]
    ELSE [err |-> "ok", val |-> SeriesLoc(DictGet(c.idx, key), pp_idx)]

\* lookup_id(pgm_id): the for loop from entry i of idx_lookup on. Unpacking a
\* key into (table, name) raises ValueError unless the key has two parts: a str
\* key unpacks into its characters, and no table name has two characters.
RECURSIVE lookup_id_from(_, _, _)
lookup_id_from(c, pgm_id, i) ==
    IF i > Len(c.idx_lookup)
    THEN [err |-> "KeyError", val |-> <<>>]
    ELSE LET key == c.idx_lookup[i].key
             indices == c.idx_lookup[i].val
         IN  IF Len(key) # 2
             THEN [err |-> "ValueError", val |-> <<>>]
             ELSE IF SeriesContains(indices, pgm_id)
             THEN [err |-> "ok",
                   val |-> [table |-> key[1], name |-> key[2],
                            index |-> SeriesLoc(indices, pgm_id)]]
             ELSE lookup_id_from(c, pgm_id, i + 1)

lookup_id(c, pgm_id) == lookup_id_from(c, pgm_id, 1)

-----------------------------------------------------------------------------
(* Switch states *)

\* component[["index", bus]].merge(switches, how="left", left_on=["index", bus],
\* right_on=["element", "bus"]): the rows of component in order, each once per
\* matching row of switches (in the order of switches), or once with NaN in
\* the columns of switches (isna) when no row matches
merge_left(component, switches, bus) ==
    Flatten([i \in DOMAIN component |->
                LET matching == SelectSeq(switches,
                                          LAMBDA sw : /\ sw.element = component[i].index
                                                      /\ sw.bus = component[i][bus])
                IN  IF matching = <<>>
                    THEN <<[isna |-> TRUE, closed |-> FALSE]>>
                    ELSE [m \in DOMAIN matching |->
                             [isna |-> FALSE, closed |-> matching[m].closed]]])

\* DataFrame.fillna(True), on the column closed
fillna_true(frame) ==
    [i \in DOMAIN frame |-> [isna |-> FALSE, closed |-> frame[i].isna \/ frame[i].closed]]

\* get_individual_switch_states(component, switches, bus). set_index raises
\* ValueError (length mismatch) when the merged frame has more rows than
\* component.
get_individual_switch_states(component, switches, bus) ==
    LET switch_state == fillna_true(merge_left(component, switches, bus)) IN
    IF Len(switch_state) # Len(component)
    THEN [err |-> "ValueError", val |-> <<>>]
    ELSE [err |-> "ok",
          val |-> MakeSeries(Column(switch_state, "closed"), Column(component, "index"))]

\* The selection of the switches without the test of et
switches_of_any_kind(c, element_type) ==
    LET selected == c.pp_data["switch"] IN
    [i \in DOMAIN selected |->
        [element |-> selected[i].element, bus |-> selected[i].bus, closed |-> selected[i].closed]]

\* pp_switches[pp_switches["et"] == element_type][["element", "bus", "closed"]]
switches_of(c, element_type) ==
    LET selected == SelectSeq(c.pp_data["switch"], LAMBDA sw : sw.et = element_type) IN
    [i \in DOMAIN selected |->
        [element |-> selected[i].element, bus |-> selected[i].bus, closed |-> selected[i].closed]]

\* The rows of the frame built from the series of each terminal in turn: the
\* first series that raised ends the method
RECURSIVE terminal_states(_, _, _, _)
terminal_states(component, pp_switches, buses, k) ==
    IF k > Len(buses)
    THEN [err |-> "ok", val |-> <<>>]
    ELSE LET first == get_individual_switch_states(component, pp_switches, buses[k])
             rest == terminal_states(component, pp_switches, buses, k + 1)
         IN  IF first.err # "ok" THEN first
             ELSE IF rest.err # "ok" THEN rest
             ELSE [err |-> "ok", val |-> <<first.val>> \o rest.val]

\* get_switch_states(pp_table): the frame with one row per terminal (from, to)
\* and one column per row of the table. The column "index" it stores in the
\* table is the field index of the rows.
get_switch_states(c, pp_table) ==
    LET element_type == IF pp_table = "line" THEN "l" ELSE "t"
        buses == IF pp_table = "line" THEN <<"from_bus", "to_bus">> ELSE <<"hv_bus", "lv_bus">>
    IN  terminal_states(c.pp_data[pp_table], switches_of(c, element_type), buses, 1)

\* get_trafo3w_switch_states(component)
get_trafo3w_switch_states(c, component) ==
    terminal_states(component, switches_of(c, "t3"), <<"hv_bus", "mv_bus", "lv_bus">>, 1)

-----------------------------------------------------------------------------
(* Tap size *)

\* _get_tap_size(pp_trafo). tap_size is np.empty(len(pp_trafo)): the entries
\* that neither mask assigns keep what the memory held (empty: one value per
\* row). 1e-2 * 1e3 is 10.
get_tap_size(pp_trafo, empty) ==
    [i \in DOMAIN pp_trafo |->
        LET tap_step_multiplier == pp_trafo[i].tap_step_percent * 10 IN
        CASE pp_trafo[i].tap_side = "hv" -> tap_step_multiplier * pp_trafo[i].vn_hv_kv
          [] pp_trafo[i].tap_side = "lv" -> tap_step_multiplier * pp_trafo[i].vn_lv_kv
          [] OTHER -> empty[i]]

\* _get_3wtransformer_tap_size(pp_3wtrafo)
get_3wtransformer_tap_size(pp_3wtrafo, empty) ==
    [i \in DOMAIN pp_3wtrafo |->
        LET tap_step_multiplier == pp_3wtrafo[i].tap_step_percent * 10 IN
        CASE pp_3wtrafo[i].tap_side = "hv" -> tap_step_multiplier * pp_3wtrafo[i].vn_hv_kv
          [] pp_3wtrafo[i].tap_side = "mv" -> tap_step_multiplier * pp_3wtrafo[i].vn_mv_kv
          [] pp_3wtrafo[i].tap_side = "lv" -> tap_step_multiplier * pp_3wtrafo[i].vn_lv_kv
          [] OTHER -> empty[i]]

-----------------------------------------------------------------------------
(* Attribute resolution. An Optional[float] is the sequence <<>> for None    *)
(* and <<x>> for the number x.                                               *)

\* The column names of a DataFrame ("attribute in pp_component_data")
Columns(frame) == IF frame = <<>> THEN {} ELSE DOMAIN frame[1]

\* get_std_value(std_type_name), the function applied to every row:
\* std_types[std_type_name] raises KeyError for a name the library lacks
get_std_value(types, attribute, default, std_type_name) ==
    IF std_type_name \notin DOMAIN types THEN [err |-> "KeyError", ret |-> <<>>]
    ELSE IF attribute \in DOMAIN types[std_type_name]
    THEN [err |-> "ok", ret |-> <<types[std_type_name][attribute]>>]
    ELSE IF default # <<>> THEN [err |-> "ok", ret |-> default]
    ELSE [err |-> "KeyError", ret |-> <<>>]

\* _get_pp_attr with the type library looked at before the column
get_pp_attr_library_first(c, table, attribute, default) ==
    LET pp_component_data == c.pp_data[table] IN
    IF table \in DOMAIN c.std_types /\ "std_type" \in Columns(pp_component_data)
    THEN LET values == [i \in DOMAIN pp_component_data |->
                           get_std_value(c.std_types[table], attribute, default,
                                         pp_component_data[i].std_type)]
         IN  IF \E i \in DOMAIN values : values[i].err # "ok"
             THEN Raise(c, "KeyError")
             ELSE [c EXCEPT !.ret = MakeSeries([i \in DOMAIN values |-> values[i].ret[1]],
                                               Column(pp_component_data, "index"))]
    ELSE IF attribute \in Columns(pp_component_data)
    THEN [c EXCEPT !.ret = MakeSeries(Column(pp_component_data, attribute),
                                      Column(pp_component_data, "index"))]
    ELSE IF default = <<>> THEN Raise(c, "KeyError")
    ELSE [c EXCEPT !.ret = default[1]]

\* _get_pp_attr(table, attribute, default)
get_pp_attr(c, table, attribute, default) ==
    LET pp_component_data == c.pp_data[table] IN
    IF attribute \in Columns(pp_component_data)
    THEN [c EXCEPT !.ret = MakeSeries(Column(pp_component_data, attribute),
                                      Column(pp_component_data, "index"))]
    ELSE IF table \in DOMAIN c.std_types /\ "std_type" \in Columns(pp_component_data)
    THEN LET values == [i \in DOMAIN pp_component_data |->
                           get_std_value(c.std_types[table], attribute, default,
                                         pp_component_data[i].std_type)]
         IN  IF \E i \in DOMAIN values : values[i].err # "ok"
             THEN Raise(c, "KeyError")
             ELSE [c EXCEPT !.ret = MakeSeries([i \in DOMAIN values |-> values[i].ret[1]],
                                               Column(pp_component_data, "index"))]
    ELSE IF default = <<>> THEN Raise(c, "KeyError")
    ELSE [c EXCEPT !.ret = default[1]]

-----------------------------------------------------------------------------
(* Forward converters. Each is its method's statements in order: what was    *)
(* written to self before an exception stays written. The fields of a target *)
(* record that are plain column arithmetic are left out, the ids, the node   *)
(* references and the load powers are kept.                                  *)

\* The converters that read one table, allocate one group and look up the
\* buses named by the columns bus_columns, in that order:
\*     assert component not in self.pgm_data
\*     if table.empty: return
\*     switch_states = self.get_switch_states(table)   (lines, transformers)
\*     ["id"] = self._generate_ids(table, rows.index)
\*     [node_column] = self._get_ids("bus", rows[bus_column])   (one per column)
\*     self.pgm_data[component] = records
RECURSIVE bus_lookups(_, _, _, _)
bus_lookups(c, rows, bus_columns, i) ==
    IF i > Len(bus_columns)
    THEN [err |-> "ok", val |-> <<>>]
    ELSE LET found == get_ids(c, "bus", Column(rows, bus_columns[i]), None)
             rest == bus_lookups(c, rows, bus_columns, i + 1)
         IN  IF found.err # "ok" THEN found
             ELSE IF rest.err # "ok" THEN rest
             ELSE [err |-> "ok", val |-> <<found.val>> \o rest.val]

\* A converter that writes its records, the ids filled in, before it looks up
\* the buses
create_component_records_first(c, component, table, bus_columns, node_columns, switch_states) ==
    IF component \in DOMAIN c.pgm_data
    THEN Raise(c, "AssertionError")
    ELSE LET rows == c.pp_data[table] IN
         IF rows = <<>>
         THEN c
         ELSE IF switch_states.err # "ok"
         THEN Raise(c, switch_states.err)
         ELSE LET g == generate_ids(c, table, Column(rows, "index"), None)
                  nodes == bus_lookups(g, rows, bus_columns, 1)
              IN  IF g.err # "ok" THEN g
                  ELSE IF nodes.err # "ok"
                  THEN Raise([g EXCEPT !.pgm_data =
                                 Put(@, component,
                                     [i \in DOMAIN rows |->
                                         [id |-> g.ret[i], nodes |-> <<>>, status |-> <<>>]])],
                             nodes.err)
                  ELSE [g EXCEPT !.pgm_data =
                           Put(@, component,
                               [i \in DOMAIN rows |->
                                   [id |-> g.ret[i],
                                    nodes |-> [k \in DOMAIN node_columns |->
                                                  <<node_columns[k], nodes.val[k][i]>>],
                                    status |-> [k \in DOMAIN switch_states.val |->
                                                   /\ rows[i].in_service
                                                   /\ SeriesLoc(switch_states.val[k],
                                                                rows[i].index)[1]]]])]

create_component(c, component, table, bus_columns, node_columns, switch_states) ==
    IF component \in DOMAIN c.pgm_data
    THEN Raise(c, "AssertionError")
    ELSE LET rows == c.pp_data[table] IN
         IF rows = <<>>
         THEN c
         ELSE IF switch_states.err # "ok"
         THEN Raise(c, switch_states.err)
         ELSE LET g == generate_ids(c, table, Column(rows, "index"), None)
                  nodes == bus_lookups(g, rows, bus_columns, 1)
              IN  IF g.err # "ok" THEN g
                  ELSE IF nodes.err # "ok" THEN Raise(g, nodes.err)
                  ELSE [g EXCEPT !.pgm_data =
                           Put(@, component,
                               [i \in DOMAIN rows |->
                                   [id |-> g.ret[i],
                                    nodes |-> [k \in DOMAIN node_columns |->
                                                  <<node_columns[k], nodes.val[k][i]>>],
                                    status |-> [k \in DOMAIN switch_states.val |->
                                                   /\ rows[i].in_service
                                                   /\ SeriesLoc(switch_states.val[k],
                                                                rows[i].index)[1]]]])]

\* For the converters that read no switch states
NoSwitchStates == [err |-> "ok", val |-> <<>>]

create_pgm_input_nodes(c) == create_component(c, "node", "bus", <<>>, <<>>, NoSwitchStates)

\* from_status and to_status are in_service & the switch state of the terminal
create_pgm_input_lines(c) ==
    create_component(c, "line", "line", <<"from_bus", "to_bus">>, <<"from_node", "to_node">>,
                     get_switch_states(c, "line"))

create_pgm_input_sources(c) ==
    create_component(c, "source", "ext_grid", <<"bus">>, <<"node">>, NoSwitchStates)

create_pgm_input_shunts(c) ==
    create_component(c, "shunt", "shunt", <<"bus">>, <<"node">>, NoSwitchStates)

create_pgm_input_sym_gens(c) ==
    create_component(c, "sym_gen", "sgen", <<"bus">>, <<"node">>, NoSwitchStates)

create_pgm_input_transformers(c) ==
    create_component(c, "transformer", "trafo", <<"hv_bus", "lv_bus">>, <<"from_node", "to_node">>,
                     get_switch_states(c, "trafo"))

create_pgm_input_three_winding_transformers(c) ==
    create_component(c, "three_winding_transformer", "trafo3w",
                     <<"hv_bus", "mv_bus", "lv_bus">>, <<"node_1", "node_2", "node_3">>,
                     get_trafo3w_switch_states(c, c.pp_data["trafo3w"]))

\* The three multipliers of a load row (1e-2 * 1e6 is 10000)
const_i_multiplier(row) == row.const_i_percent * row.scaling * 10000

const_z_multiplier(row) == row.const_z_percent * row.scaling * 10000

const_p_multiplier(row) ==
    (1000000 - const_i_multiplier(row) - const_z_multiplier(row)) * row.scaling

multiplier(row, name) ==
    CASE name = "const_power" -> const_p_multiplier(row)
      [] name = "const_impedance" -> const_z_multiplier(row)
      [] name = "const_current" -> const_i_multiplier(row)

\* One block of n_loads records of sym_load: its ids, nodes, type and powers
sym_load_block(c, pp_loads, name) ==
    LET g == generate_ids(c, "load", Column(pp_loads, "index"), name)
        node == get_ids(g, "bus", Column(pp_loads, "bus"), None)
    IN  IF g.err # "ok" THEN g
        ELSE IF node.err # "ok" THEN Raise(g, node.err)
        ELSE [g EXCEPT !.ret =
                 [i \in DOMAIN pp_loads |->
                     [id |-> g.ret[i], node |-> node.val[i], type |-> name,
                      p_specified |-> multiplier(pp_loads[i], name) * pp_loads[i].p_mw,
                      q_specified |-> multiplier(pp_loads[i], name) * pp_loads[i].q_mvar]]]

create_pgm_input_sym_loads(c) ==
    IF "sym_load" \in DOMAIN c.pgm_data
    THEN Raise(c, "AssertionError")
    ELSE LET pp_loads == c.pp_data["load"] IN
         IF pp_loads = <<>>
         THEN c
         ELSE LET b1 == sym_load_block(c, pp_loads, "const_power")
                  b2 == sym_load_block(b1, pp_loads, "const_impedance")
                  b3 == sym_load_block(b2, pp_loads, "const_current")
              IN  IF b1.err # "ok" THEN b1
                  ELSE IF b2.err # "ok" THEN b2
                  ELSE IF b3.err # "ok" THEN b3
                  ELSE [b3 EXCEPT !.pgm_data = Put(@, "sym_load", b1.ret \o b2.ret \o b3.ret),
                                  !.ret = <<>>]

\* _create_pgm_input_links without the selection of the bus to bus switches
create_pgm_input_links_all_switches(c) ==
    IF "link" \in DOMAIN c.pgm_data
    THEN Raise(c, "AssertionError")
    ELSE IF c.pp_data["switch"] = <<>>
    THEN c
    ELSE LET pp_switches == c.pp_data["switch"]
             c1 == [c EXCEPT !.pp_data = Put(@, "switch_b2b", pp_switches)]
             g == generate_ids(c1, "switch", Column(pp_switches, "index"), "bus_to_bus")
             from_node == get_ids(g, "bus", Column(pp_switches, "bus"), None)
             to_node == get_ids(g, "bus", Column(pp_switches, "element"), None)
         IN  IF g.err # "ok" THEN g
             ELSE IF from_node.err # "ok" THEN Raise(g, from_node.err)
             ELSE IF to_node.err # "ok" THEN Raise(g, to_node.err)
             ELSE [g EXCEPT !.pgm_data =
                      Put(@, "link",
                          [i \in DOMAIN pp_switches |->
                              [id |-> g.ret[i],
                               nodes |-> << <<"from_node", from_node.val[i]>>,
                                           <<"to_node", to_node.val[i]>> >>,
                               from_status |-> pp_switches[i].closed,
                               to_status |-> pp_switches[i].closed]])]

\* _create_pgm_input_links
create_pgm_input_links(c) ==
    IF "link" \in DOMAIN c.pgm_data
    THEN Raise(c, "AssertionError")
    ELSE IF c.pp_data["switch"] = <<>>
    THEN c
    ELSE LET pp_switches == SelectSeq(c.pp_data["switch"], LAMBDA row : row.et = "b")
             c1 == [c EXCEPT !.pp_data = Put(@, "switch_b2b", pp_switches)]
             g == generate_ids(c1, "switch", Column(pp_switches, "index"), "bus_to_bus")
             from_node == get_ids(g, "bus", Column(pp_switches, "bus"), None)
             to_node == get_ids(g, "bus", Column(pp_switches, "element"), None)
         IN  IF g.err # "ok" THEN g
             ELSE IF from_node.err # "ok" THEN Raise(g, from_node.err)
             ELSE IF to_node.err # "ok" THEN Raise(g, to_node.err)
             ELSE [g EXCEPT !.pgm_data =
                      Put(@, "link",
                          [i \in DOMAIN pp_switches |->
                              [id |-> g.ret[i],
                               nodes |-> << <<"from_node", from_node.val[i]>>,
                                           <<"to_node", to_node.val[i]>> >>,
                               from_status |-> pp_switches[i].closed,
                               to_status |-> pp_switches[i].closed]])]

\* The k-th call of _create_input_data
create_input_data_call(c, k) ==
    CASE k = 1 -> create_pgm_input_nodes(c)
      [] k = 2 -> create_pgm_input_lines(c)
      [] k = 3 -> create_pgm_input_sources(c)
      [] k = 4 -> create_pgm_input_sym_loads(c)
      [] k = 5 -> create_pgm_input_shunts(c)
      [] k = 6 -> create_pgm_input_transformers(c)
      [] k = 7 -> create_pgm_input_sym_gens(c)
      [] k = 8 -> create_pgm_input_three_winding_transformers(c)
      [] k = 9 -> create_pgm_input_links(c)

\* _create_input_data from its k-th call on: a call is reached only when no
\* earlier one raised
RECURSIVE create_input_data_from(_, _)
create_input_data_from(c, k) ==
    IF k > 9 \/ c.err # "ok"
    THEN c
    ELSE create_input_data_from(create_input_data_call(c, k), k + 1)

\* _create_input_data
create_input_data(c) == create_input_data_from(c, 1)

\* _parse_data without self.next_idx = 0
parse_data_keeps_next_idx(c, data, data_type) ==
    LET cleared == [c EXCEPT !.pgm_data = NoTables, !.idx_lookup = <<>>, !.pp_data = data]
    IN  IF data_type = "input" THEN create_input_data(cleared) ELSE Raise(cleared, "ValueError")

\* _parse_data, lines 53-65: the reset and the conversion
parse_data(c, data, data_type) ==
    LET cleared == [c EXCEPT !.pgm_data = NoTables, !.idx_lookup = <<>>, !.next_idx = 0,
                             !.pp_data = data]
    IN  IF data_type = "input" THEN create_input_data(cleared) ELSE Raise(cleared, "ValueError")

\* _parse_data, lines 67-74: the sidecar, written into the caller's dict
RECURSIVE fill_extra_info(_, _, _)
fill_extra_info(extra, entries, i) ==
    IF i > Len(entries)
    THEN extra
    ELSE fill_extra_info(DictSet(extra, entries[i].key, entries[i].val), entries, i + 1)

\* The id_reference entries in the order they are written; an entry without a
\* "name" key holds name = None, which no reader of the sidecar tells apart
id_references(lookup) ==
    Flatten([g \in DOMAIN lookup |->
                LET pp_table == lookup[g].key[1]
                    name == lookup[g].key[2]
                    indices == lookup[g].val
                IN  [r \in DOMAIN indices |->
                        [key |-> indices[r][1],
                         val |-> [table |-> pp_table, name |-> name, index |-> indices[r][2]]]]])

construct_extra_info(c, extra) == fill_extra_info(extra, id_references(c.idx_lookup), 1)

\* _extra_info_to_idx_lookup
RECURSIVE pgm_to_pp_id(_, _)
pgm_to_pp_id(extra, i) ==
    IF i = 0
    THEN <<>>
    ELSE LET before == pgm_to_pp_id(extra, i - 1)
             pp_table == extra[i].val.table
             pair == <<extra[i].key, extra[i].val.index>>
         IN  DictSet(before, pp_table,
                     IF DictHas(before, pp_table)
                     THEN Append(DictGet(before, pp_table), pair)
                     ELSE <<pair>>)

extra_info_to_idx_lookup(c, extra) ==
    LET per_table == pgm_to_pp_id(extra, Len(extra))
        series(swap) ==
            [g \in DOMAIN per_table |->
                LET pgm_ids == [r \in DOMAIN per_table[g].val |-> per_table[g].val[r][1]]
                    pp_indices == [r \in DOMAIN per_table[g].val |-> per_table[g].val[r][2]]
                IN  [key |-> <<per_table[g].key>>,
                     val |-> IF swap THEN MakeSeries(pp_indices, pgm_ids)
                                     ELSE MakeSeries(pgm_ids, pp_indices)]]
    IN  [c EXCEPT !.idx = series(FALSE), !.idx_lookup = series(TRUE)]

-----------------------------------------------------------------------------
(* Output side. A result record array (pgm_output_data[component]) is a      *)
(* sequence of records with the field id and the computed fields. A power in *)
(* MW is the exact quotient [num, den] of the power in W: rounding is not    *)
(* modelled.                                                                 *)

\* x / d and x * (1 / d)
Quotient(x, d) == [num |-> x, den |-> d]

\* A cell that was never assigned
NaN == "NaN"

\* u_angle * 180.0 / math.pi
Degrees(u_angle) == [num |-> u_angle * 180, den |-> "pi"]

\* array[node_col] of a target record array
NodeColumn(records, node_col) ==
    [i \in DOMAIN records |->
        LET k == CHOOSE k \in DOMAIN records[i].nodes : records[i].nodes[k][1] = node_col
        IN  records[i].nodes[k][2]]

\* The elements of a set of numbers in increasing order
RECURSIVE Sorted(_)
Sorted(S) ==
    IF S = {} THEN <<>>
    ELSE LET least == CHOOSE x \in S : \A y \in S : x <= y
         IN  <<least>> \o Sorted(S \ {least})

\* The sum of values[i] over the positions i <= n with labels[i] = label
RECURSIVE SumAt(_, _, _, _)
SumAt(labels, values, label, n) ==
    IF n = 0 THEN 0
    ELSE SumAt(labels, values, label, n - 1)
             + (IF labels[n] = label THEN values[n] ELSE 0)

\* component_sides of _pp_buses_output__accumulate_power, in the order of the
\* dict
component_sides ==
    << [component |-> "line",
        sides |-> << <<"from_node", "p_from", "q_from">>, <<"to_node", "p_to", "q_to">> >>],
       [component |-> "link",
        sides |-> << <<"from_node", "p_from", "q_from">>, <<"to_node", "p_to", "q_to">> >>],
       [component |-> "transformer",
        sides |-> << <<"from_node", "p_from", "q_from">>, <<"to_node", "p_to", "q_to">> >>],
       [component |-> "three_winding_transformer",
        sides |-> << <<"node_1", "p_1", "q_1">>, <<"node_2", "p_2", "q_2">>,
                     <<"node_3", "p_3", "q_3">> >>] >>

\* zip(pgm_data[component][node_col], pgm_output_data[component][p_col],
\* pgm_output_data[component][q_col]): the target records and the result
\* records paired by position, up to the end of the shorter array
component_data(c, component, side) ==
    [k \in 1..(IF Len(c.pgm_data[component]) < Len(c.pgm_output_data[component])
               THEN Len(c.pgm_data[component])
               ELSE Len(c.pgm_output_data[component])) |->
        [node |-> NodeColumn(c.pgm_data[component], side[1])[k],
         p |-> c.pgm_output_data[component][k][side[2]],
         q |-> c.pgm_output_data[component][k][side[3]]]]

\* The index of groupby(node_col).sum(): the node ids, in increasing order
grouped(data) == Sorted({data[k].node : k \in DOMAIN data})

\* Lines 489-498 with the sums assigned to the buses in place of added
add_sums_assigning(buses, data, pp) ==
    LET bus_of == [k \in DOMAIN data |->
                      pp.val[CHOOSE j \in DOMAIN pp.val : grouped(data)[j] = data[k].node]]
    IN  IF pp.err # "ok"
        THEN [err |-> pp.err, frame |-> buses]
        ELSE [err |-> "ok",
              frame |-> [b \in DOMAIN buses |->
                            IF \E j \in DOMAIN pp.val : pp.val[j] = buses[b].index
                            THEN [buses[b] EXCEPT
                                     !.p_mw = SumAt(bus_of, Column(data, "p"),
                                                    buses[b].index, Len(data)),
                                     !.q_mvar = SumAt(bus_of, Column(data, "q"),
                                                      buses[b].index, Len(data))]
                            ELSE buses[b]]]

\* Lines 489-498: pp is what _get_pp_ids("bus", ...) gave for the grouped node
\* ids, the source index of the bus of each; the sums of a bus are added to
\* the row of that bus when the frame has one
add_sums(buses, data, pp) ==
    LET bus_of == [k \in DOMAIN data |->
                      pp.val[CHOOSE j \in DOMAIN pp.val : grouped(data)[j] = data[k].node]]
    IN  IF pp.err # "ok"
        THEN [err |-> pp.err, frame |-> buses]
        ELSE [err |-> "ok",
              frame |-> [b \in DOMAIN buses |->
                            IF \E j \in DOMAIN pp.val : pp.val[j] = buses[b].index
                            THEN [buses[b] EXCEPT
                                     !.p_mw = @ + SumAt(bus_of, Column(data, "p"),
                                                        buses[b].index, Len(data)),
                                     !.q_mvar = @ + SumAt(bus_of, Column(data, "q"),
                                                          buses[b].index, Len(data))]
                            ELSE buses[b]]]

\* The body of the loop over the sides (lines 478-498), side being (node_col,
\* p_col, q_col)
accumulate_side(c, buses, component, side) ==
    add_sums(buses, component_data(c, component, side),
             get_pp_ids(c, "bus", grouped(component_data(c, component, side)), None))

\* for node_col, p_col, q_col in sides, from side j on; done is the frame so
\* far, or the exception raised
RECURSIVE accumulate_sides(_, _, _, _, _)
accumulate_sides(c, done, component, sides, j) ==
    IF done.err # "ok" \/ j > Len(sides)
    THEN done
    ELSE accumulate_sides(c, accumulate_side(c, done.frame, component, sides[j]),
                          component, sides, j + 1)

\* The loop over the components with a component that pgm_data lacks skipped
RECURSIVE accumulate_components_skipping(_, _, _, _)
accumulate_components_skipping(c, done, components, i) ==
    IF done.err # "ok" \/ i > Len(components)
    THEN done
    ELSE IF \/ components[i].component \notin DOMAIN c.pgm_output_data
            \/ c.pgm_output_data[components[i].component] = <<>>
            \/ components[i].component \notin DOMAIN c.pgm_data
    THEN accumulate_components_skipping(c, done, components, i + 1)
    ELSE accumulate_components_skipping(
             c, accumulate_sides(c, done, components[i].component, components[i].sides, 1),
             components, i + 1)

\* The loop over the components with the test for pgm_data made before the
\* test for a component without result records
RECURSIVE accumulate_components_target_first(_, _, _, _)
accumulate_components_target_first(c, done, components, i) ==
    IF done.err # "ok" \/ i > Len(components)
    THEN done
    ELSE IF components[i].component \notin DOMAIN c.pgm_data
    THEN [done EXCEPT !.err = "KeyError"]
    ELSE IF \/ components[i].component \notin DOMAIN c.pgm_output_data
            \/ c.pgm_output_data[components[i].component] = <<>>
    THEN accumulate_components_target_first(c, done, components, i + 1)
    ELSE accumulate_components_target_first(
             c, accumulate_sides(c, done, components[i].component, components[i].sides, 1),
             components, i + 1)

\* for component, sides in component_sides.items(), from entry i on
\* (lines 470-498)
RECURSIVE accumulate_components(_, _, _, _)
accumulate_components(c, done, components, i) ==
    IF done.err # "ok" \/ i > Len(components)
    THEN done
    ELSE IF \/ components[i].component \notin DOMAIN c.pgm_output_data
            \/ c.pgm_output_data[components[i].component] = <<>>
    THEN accumulate_components(c, done, components, i + 1)
    ELSE IF components[i].component \notin DOMAIN c.pgm_data
    THEN [done EXCEPT !.err = "KeyError"]
    ELSE accumulate_components(
             c, accumulate_sides(c, done, components[i].component, components[i].sides, 1),
             components, i + 1)

\* Lines 466-467: the powers set to zero
zero_powers(pp_output_buses) ==
    [err |-> "ok",
     frame |-> [b \in DOMAIN pp_output_buses |->
                   [pp_output_buses[b] EXCEPT !.p_mw = 0, !.q_mvar = 0]]]

\* Lines 501-502: the unit conversion, W -> MW and VAR -> MVAR
convert_units(done) ==
    IF done.err # "ok" THEN done
    ELSE [done EXCEPT !.frame = [b \in DOMAIN @ |->
                                    [@[b] EXCEPT !.p_mw = Quotient(@, 1000000),
                                                 !.q_mvar = Quotient(@, 1000000)]]]

\* _pp_buses_output__accumulate_power(pp_output_buses) for a given dict of
\* components and sides. The frame is changed in place: after an exception it
\* holds the sums added so far, in W.
accumulate_power(c, pp_output_buses, components) ==
    convert_units(accumulate_components(c, zero_powers(pp_output_buses), components, 1))

\* _pp_buses_output__accumulate_power(pp_output_buses)
pp_buses_output__accumulate_power(c, pp_output_buses) ==
    accumulate_power(c, pp_output_buses, component_sides)

\* pd.DataFrame(columns=["vm_pu", "va_degree", "p_mw", "q_mvar"], index=index)
new_output_buses(index) ==
    [b \in DOMAIN index |->
        [index |-> index[b], vm_pu |-> NaN, va_degree |-> NaN, p_mw |-> NaN, q_mvar |-> NaN]]

\* self.pp_output_data[pp_table] = done.frame, unless building the frame raised
write_output(c, pp_table, done) ==
    IF done.err # "ok"
    THEN Raise(c, done.err)
    ELSE [c EXCEPT !.pp_output_data = Put(@, pp_table, done.frame)]

\* _pp_buses_output
pp_buses_output(c) ==
    IF "bus" \in DOMAIN c.pp_output_data
    THEN Raise(c, "AssertionError")
    ELSE IF "node" \notin DOMAIN c.pgm_output_data
    THEN Raise(c, "KeyError")
    ELSE LET pgm_nodes == c.pgm_output_data["node"]
             index == get_pp_ids(c, "bus", Column(pgm_nodes, "id"), None)
         IN  IF index.err # "ok"
             THEN Raise(c, index.err)
             ELSE IF "u_pu" \notin Columns(c.pgm_nodes_lookup)
             THEN Raise(c, "KeyError")
             ELSE write_output(c, "bus",
                               pp_buses_output__accumulate_power(
                                   c, [b \in DOMAIN index.val |->
                                          [new_output_buses(index.val)[b] EXCEPT
                                              !.vm_pu = c.pgm_nodes_lookup[b].u_pu,
                                              !.va_degree = c.pgm_nodes_lookup[b].u_degree]]))

\* self.pgm_nodes_lookup[node_ids], the columns named by node_ids: the columns
\* of the lookup are named by strings and node ids are numbers, so that a
\* selection by one id or more raises KeyError; an empty selection gives a
\* frame without columns
nodes_lookup_getitem(c, node_ids) ==
    IF node_ids = <<>>
    THEN [err |-> "ok", val |-> <<>>]
    ELSE [err |-> "KeyError", val |-> <<>>]

\* at_nodes = self.pgm_nodes_lookup[pgm_input[node_column]], for each of the
\* node columns
select_nodes(c, records, node_columns) ==
    IF \E k \in DOMAIN node_columns :
           nodes_lookup_getitem(c, NodeColumn(records, node_columns[k])).err # "ok"
    THEN "KeyError"
    ELSE "ok"

\* at_nodes["u_pu"], for each of the node columns
read_u_pu(c, records, node_columns) ==
    IF \E k \in DOMAIN node_columns :
           "u_pu" \notin Columns(nodes_lookup_getitem(c, NodeColumn(records,
                                                                    node_columns[k])).val)
    THEN "KeyError"
    ELSE "ok"

\* The fields of the result records an aggregator reads powers from
output_fields(pp_table) ==
    CASE pp_table \in {"line", "trafo"} -> {"p_from", "q_from", "p_to", "q_to"}
      [] pp_table = "trafo3w" -> {"p_1", "q_1", "p_2", "q_2", "p_3", "q_e"}
      [] OTHER -> {"p", "q"}

\* The power columns of an output row, each a power or a sum of powers of the
\* result record times 1e-6
output_columns(pp_table, record) ==
    CASE pp_table = "line" ->
            [p_from_mw |-> Quotient(record.p_from, 1000000),
             q_from_mvar |-> Quotient(record.q_from, 1000000),
             p_to_mw |-> Quotient(record.p_to, 1000000),
             q_to_mvar |-> Quotient(record.q_to, 1000000),
             pl_mw |-> Quotient(record.p_from + record.p_to, 1000000),
             ql_mvar |-> Quotient(record.q_from + record.q_to, 1000000)]
      [] pp_table = "trafo" ->
            [p_hv_mw |-> Quotient(record.p_from, 1000000),
             q_hv_mvar |-> Quotient(record.q_from, 1000000),
             p_lv_mw |-> Quotient(record.p_to, 1000000),
             q_lv_mvar |-> Quotient(record.q_to, 1000000),
             pl_mw |-> Quotient(record.p_from + record.p_to, 1000000),
             ql_mvar |-> Quotient(record.q_from + record.q_to, 1000000)]
      [] pp_table = "trafo3w" ->
            [p_hv_mw |-> Quotient(record.p_1, 1000000),
             q_hv_mvar |-> Quotient(record.q_1, 1000000),
             p_mv_mw |-> Quotient(record.p_2, 1000000),
             q_mv_mvar |-> Quotient(record.q_2, 1000000),
             p_lv_mw |-> Quotient(record.p_3, 1000000),
             q_lv_mvar |-> Quotient(record.q_e, 1000000),
             pl_mw |-> Quotient(record.p_1 + record.p_2 + record.p_3, 1000000),
             ql_mvar |-> Quotient(record.p_1 + record.p_2 + record.p_3, 1000000)]
      [] OTHER ->
            [p_mw |-> Quotient(record.p, 1000000), q_mvar |-> Quotient(record.q, 1000000)]

\* The aggregators that read the target records and the result records of one
\* component, look up its nodes and map its ids back through the registry
\* group named group:
\*     assert pp_table not in self.pp_output_data
\*     assert component in self.pgm_data
\*     pgm_output = self.pgm_output_data[component]
\*     at_nodes = self.pgm_nodes_lookup[pgm_input[node_column]]   (one per column)
\*     index = self._get_pp_ids(group, pgm_output["id"])
\*     [...] = pgm_output[field] * 1e-6     (ValueError: no field of that name)
\*     [...] = at_nodes["u_pu"]
\*     self.pp_output_data[pp_table] = output
\* The currents, voltages and the loading are left out.
pp_component_output(c, pp_table, component, group, node_columns) ==
    IF pp_table \in DOMAIN c.pp_output_data \/ component \notin DOMAIN c.pgm_data
    THEN Raise(c, "AssertionError")
    ELSE IF component \notin DOMAIN c.pgm_output_data
    THEN Raise(c, "KeyError")
    ELSE IF select_nodes(c, c.pgm_data[component], node_columns) # "ok"
    THEN Raise(c, "KeyError")
    ELSE IF get_pp_ids(c, group, Column(c.pgm_output_data[component], "id"), None).err # "ok"
    THEN Raise(c, "KeyError")
    ELSE IF \E i \in DOMAIN c.pgm_output_data[component] :
                ~(output_fields(pp_table) \subseteq DOMAIN c.pgm_output_data[component][i])
    THEN Raise(c, "ValueError")
    ELSE IF read_u_pu(c, c.pgm_data[component], node_columns) # "ok"
    THEN Raise(c, "KeyError")
    ELSE [c EXCEPT !.pp_output_data =
             Put(@, pp_table,
                 [i \in DOMAIN c.pgm_output_data[component] |->
                     [index |-> get_pp_ids(c, group,
                                           Column(c.pgm_output_data[component], "id"),
                                           None).val[i],
                      columns |-> output_columns(pp_table,
                                                 c.pgm_output_data[component][i])]])]

\* _pp_lines_output
pp_lines_output(c) ==
    pp_component_output(c, "line", "line", "line", <<"from_node", "to_node">>)

\* _pp_ext_grids_output: no node is looked up, the group is "source"
pp_ext_grids_output(c) ==
    pp_component_output(c, "ext_grid", "source", "source", <<>>)

\* _pp_shunts_output
pp_shunts_output(c) ==
    pp_component_output(c, "shunt", "shunt", "shunt", <<"node">>)

\* _pp_sgens_output
pp_sgens_output(c) ==
    pp_component_output(c, "sgen", "sym_gen", "sym_gen", <<"node">>)

\* _pp_trafos_output
pp_trafos_output(c) ==
    pp_component_output(c, "trafo", "transformer", "transformer",
                        <<"from_node", "to_node">>)

\* _pp_trafos3w_output
pp_trafos3w_output(c) ==
    pp_component_output(c, "trafo3w", "three_winding_transformer",
                        "three_winding_transformer", <<"node_1", "node_2", "node_3">>)

\* array[ids] of a result column for a Series of ids: the ids are taken as
\* positions, counted from 0
take(array, ids) ==
    IF \E k \in DOMAIN ids : ids[k] + 1 \notin DOMAIN array
    THEN [err |-> "IndexError", val |-> <<>>]
    ELSE [err |-> "ok", val |-> [k \in DOMAIN ids |-> array[ids[k] + 1]]]

\* _pp_loads_output: the three groups are read from idx under the names of
\* the forward pass and from idx_lookup under the names "constant_power",
\* "constant_current" and "constant_impedance"
pp_loads_output(c) ==
    IF "load" \in DOMAIN c.pp_output_data \/ "sym_load" \notin DOMAIN c.pgm_data
    THEN Raise(c, "AssertionError")
    ELSE IF "sym_load" \notin DOMAIN c.pgm_output_data \/ "load" \notin DOMAIN c.pp_data
    THEN Raise(c, "KeyError")
    ELSE LET pgm_output_loads == c.pgm_output_data["sym_load"]
             pp_loads == c.pp_data["load"]
             cp_ids == get_ids(c, "load", Column(pp_loads, "index"), "const_power")
             ci_ids == get_ids(c, "load", Column(pp_loads, "index"), "const_impedance")
             cc_ids == get_ids(c, "load", Column(pp_loads, "index"), "const_current")
             cp == get_pp_ids(c, "load", Column(pgm_output_loads, "id"), "constant_power")
             cc == get_pp_ids(c, "load", Column(pgm_output_loads, "id"), "constant_current")
             ci == get_pp_ids(c, "load", Column(pgm_output_loads, "id"),
                              "constant_impedance")
             p == [k \in 1..3 |->
                      take(Column(pgm_output_loads, "p"), <<cp_ids, ci_ids, cc_ids>>[k].val)]
             q == [k \in 1..3 |->
                      take(Column(pgm_output_loads, "q"), <<cp_ids, ci_ids, cc_ids>>[k].val)]
         IN  IF \E r \in {cp_ids, ci_ids, cc_ids, cp, cc, ci} : r.err # "ok"
             THEN Raise(c, "KeyError")
             ELSE IF \E k \in 1..3 : p[k].err # "ok" \/ q[k].err # "ok"
             THEN Raise(c, "IndexError")
             ELSE IF \E k \in 1..3 : Len(p[k].val) # Len(cp.val)
             THEN Raise(c, "ValueError")
             ELSE [c EXCEPT !.pp_output_data =
                      Put(@, "load",
                          [i \in DOMAIN cp.val |->
                              [index |-> cp.val[i],
                               columns |->
                                   [p_mw |-> Quotient(p[1].val[i] + p[2].val[i] + p[3].val[i],
                                                      1000000),
                                    q_mvar |-> Quotient(q[1].val[i] + q[2].val[i] + q[3].val[i],
                                                        1000000)]]])]

\* The registry groups each aggregator passes to _get_pp_ids
output_groups(pp_table) ==
    CASE pp_table = "bus" -> {<<"bus", None>>}
      [] pp_table = "line" -> {<<"line", None>>}
      [] pp_table = "ext_grid" -> {<<"source", None>>}
      [] pp_table = "shunt" -> {<<"shunt", None>>}
      [] pp_table = "sgen" -> {<<"sym_gen", None>>}
      [] pp_table = "trafo" -> {<<"transformer", None>>}
      [] pp_table = "trafo3w" -> {<<"three_winding_transformer", None>>}
      [] pp_table = "load" -> {<<"load", "constant_power">>, <<"load", "constant_current">>,
                               <<"load", "constant_impedance">>}

\* self.pgm_nodes_lookup = pd.DataFrame([u_pu, u_angle * 180.0 / math.pi],
\* columns=["vm_pu", "u_degree"], index=node ids): the two arrays are the two
\* rows of the frame, which has as many columns as there are nodes. Two column
\* names and an index of as many labels as nodes fit it with two nodes only,
\* ValueError otherwise.
create_nodes_lookup(c) ==
    IF "node" \notin DOMAIN c.pgm_output_data
    THEN Raise(c, "KeyError")
    ELSE LET node == c.pgm_output_data["node"]
             data == <<Column(node, "u_pu"),
                       [i \in DOMAIN node |-> Degrees(node[i].u_angle)]>>
         IN  IF Len(node) # 2
             THEN Raise(c, "ValueError")
             ELSE [c EXCEPT !.pgm_nodes_lookup =
                      [r \in 1..2 |->
                          [index |-> node[r].id, vm_pu |-> data[r][1],
                           u_degree |-> data[r][2]]]]

\* The k-th statement of _create_output_data
create_output_data_call(c, k) ==
    CASE k = 1 -> create_nodes_lookup(c)
      [] k = 2 -> pp_buses_output(c)
      [] k = 3 -> pp_lines_output(c)
      [] k = 4 -> pp_ext_grids_output(c)
      [] k = 5 -> pp_loads_output(c)
      [] k = 6 -> pp_shunts_output(c)
      [] k = 7 -> pp_trafos_output(c)
      [] k = 8 -> pp_sgens_output(c)
      [] k = 9 -> pp_trafos3w_output(c)

\* _create_output_data from its k-th statement on: an exception ends it
RECURSIVE create_output_data_from(_, _)
create_output_data_from(c, k) ==
    IF k > 9 \/ c.err # "ok" THEN c
    ELSE create_output_data_from(create_output_data_call(c, k), k + 1)

\* _create_output_data
create_output_data(c) == create_output_data_from(c, 1)

\* _serialize_data(data, extra_info), extra_info being None (with_extra
\* FALSE) or a dict
serialize_data(c, data, with_extra, extra) ==
    LET rebuilt == IF with_extra THEN extra_info_to_idx_lookup(c, extra) ELSE c IN
    create_output_data([rebuilt EXCEPT !.pgm_nodes_lookup = <<>>,
                                       !.pp_output_data = NoTables,
                                       !.pgm_output_data = data])

-----------------------------------------------------------------------------
(* Result datasets (the Dataset the solver computes from pgm_data)           *)

\* Powers in W
PowerSamples == <<100000, 50000, -250000, 1200000, -70000, 330000, 10000>>

\* The result record of the i-th target record of a component: the same id,
\* and powers that differ from row to row, from field to field and with v
ResultRecord(component, record, i, v) ==
    LET power(k) == Cycle(PowerSamples, v + 6 * (i - 1) + k) IN
    CASE component = "node" -> [id |-> record.id, u_pu |-> 1, u_angle |-> i - 1]
      [] component \in {"line", "link", "transformer"} ->
            [id |-> record.id, p_from |-> power(1), q_from |-> power(2),
             p_to |-> power(3), q_to |-> power(4)]
      [] component = "three_winding_transformer" ->
            [id |-> record.id, p_1 |-> power(1), q_1 |-> power(2), p_2 |-> power(3),
             q_2 |-> power(4), p_3 |-> power(5), q_3 |-> power(6)]
      [] OTHER -> [id |-> record.id, p |-> power(1), q |-> power(2)]

\* The result dataset of a target dataset: every component of the target
\* dataset, one record per target record, in the same order
SolverResult(target, v) ==
    [component \in DOMAIN target |->
        [i \in DOMAIN target[component] |->
            ResultRecord(component, target[component][i], i, v)]]

-----------------------------------------------------------------------------
(* The calls made on a converter *)

\* The record of a call: the method, the exception it raised, what it returned
\* and its arguments (extra: extra_info was given; repeat: the dataset given is
\* the one of the pass before)
Call(op, c, extra, repeat, pp_table, name, pp_idx) ==
    [op |-> op, err |-> c.err, ret |-> c.ret, extra |-> extra, repeat |-> repeat,
     table |-> pp_table, name |-> name, pp_idx |-> pp_idx]

\* __init__
Init ==
    /\ pp_data = NoTables
    /\ pgm_data = NoTables
    /\ idx = <<>>
    /\ idx_lookup = <<>>
    /\ next_idx = 0
    /\ pgm_output_data = NoTables
    /\ pp_output_data = NoTables
    /\ pgm_nodes_lookup = <<>>
    /\ std_types = NoTables
    /\ extra_info = <<>>
    /\ passes = 0
    /\ last_call = Call("init", Self, FALSE, FALSE, None, None, <<>>)

\* The arguments of _parse_data other than the dataset: the data type and
\* whether extra_info is the new dict the caller made for this pass (TRUE) or
\* None (the dict then stays empty)
ParseArguments == {<<"input", TRUE>>, <<"input", FALSE>>, <<"update", FALSE>>}

\* _parse_data(data, data_type, extra_info). The dataset is a new one, with or
\* without a row that refers to a missing bus, or the one of the pass before,
\* as that pass left it.
ParseData ==
    /\ passes < MaxPasses
    /\ \E data \in Networks \cup DanglingNetworks \cup (IF passes > 0 THEN {pp_data} ELSE {}),
          arguments \in ParseArguments :
          LET data_type == arguments[1]
              with_extra == arguments[2]
              c == parse_data(Self, data, data_type)
          IN
          /\ pp_data' = c.pp_data
          /\ pgm_data' = c.pgm_data
          /\ idx' = c.idx
          /\ idx_lookup' = c.idx_lookup
          /\ next_idx' = c.next_idx
          /\ extra_info' = IF with_extra /\ c.err = "ok"
                           THEN construct_extra_info(c, <<>>)
                           ELSE <<>>
          /\ passes' = passes + 1
          /\ UNCHANGED <<pgm_output_data, pp_output_data, pgm_nodes_lookup, std_types>>
          /\ last_call' = Call("parse_data", c, with_extra, data = pp_data, None, None, <<>>)

\* _serialize_data(data, extra_info): extra_info is None or the dict of the
\* last pass, data is an empty dataset or the result the solver computes from
\* the target dataset of the last pass
SerializeData ==
    \E with_extra \in BOOLEAN, data \in {NoTables, SolverResult(pgm_data, 0)} :
        LET c == serialize_data(Self, data, with_extra, extra_info) IN
        /\ idx' = c.idx
        /\ idx_lookup' = c.idx_lookup
        /\ pgm_output_data' = c.pgm_output_data
        /\ pp_output_data' = c.pp_output_data
        /\ pgm_nodes_lookup' = c.pgm_nodes_lookup
        /\ last_call' = Call("serialize_data", c, with_extra, FALSE, None, None, <<>>)
        /\ UNCHANGED <<pp_data, pgm_data, next_idx, std_types, extra_info, passes>>

Next == ParseData \/ SerializeData

Spec == Init /\ [][Next]_vars

-----------------------------------------------------------------------------
(* The registry used on its own: direct calls of _generate_ids and of        *)
(* _extra_info_to_idx_lookup on a new converter                              *)

\* The (table, name) groups the forward converters allocate
Groups ==
    {<<t, None>> : t \in Tables \ {"load", "switch"}}
        \cup {<<"load", "const_power">>, <<"load", "const_impedance">>,
              <<"load", "const_current">>, <<"switch", "bus_to_bus">>}

\* A converter as __init__ leaves it
NewConverter ==
    [pp_data |-> NoTables, pgm_data |-> NoTables, idx |-> <<>>, idx_lookup |-> <<>>,
     next_idx |-> 0, pgm_output_data |-> NoTables, pp_output_data |-> NoTables,
     pgm_nodes_lookup |-> <<>>,
     std_types |-> std_types, err |-> "ok", ret |-> <<>>]

\* The sidecars that forward passes of other converters emit
Sidecars ==
    {construct_extra_info(parse_data(NewConverter, data, "input"), <<>>) :
        data \in {d \in Networks : parse_data(NewConverter, d, "input").err = "ok"}}

\* _generate_ids(pp_table, pp_idx, name) with a non-empty pp_idx
GenerateIdsCall ==
    \E key \in Groups, n \in 1..MaxRows :
        LET pp_idx == SourceIndex(n)
            c == generate_ids(Self, key[1], pp_idx, key[2])
        IN  /\ next_idx + n <= MaxIds
            /\ idx' = c.idx
            /\ idx_lookup' = c.idx_lookup
            /\ next_idx' = c.next_idx
            /\ last_call' = Call("generate_ids", c, FALSE, FALSE, key[1], key[2], pp_idx)
            /\ UNCHANGED <<pp_data, pgm_data, extra_info, passes>>
            /\ UNCHANGED <<pgm_output_data, pp_output_data, pgm_nodes_lookup, std_types>>

\* _extra_info_to_idx_lookup(extra_info)
ExtraInfoToIdxLookupCall ==
    \E extra \in Sidecars :
        LET c == extra_info_to_idx_lookup(Self, extra) IN
        /\ idx' = c.idx
        /\ idx_lookup' = c.idx_lookup
        /\ extra_info' = extra
        /\ last_call' = Call("extra_info_to_idx_lookup", c, TRUE, FALSE, None, None, <<>>)
        /\ UNCHANGED <<pp_data, pgm_data, next_idx, passes>>
        /\ UNCHANGED <<pgm_output_data, pp_output_data, pgm_nodes_lookup, std_types>>

NextRegistry == GenerateIdsCall \/ ExtraInfoToIdxLookupCall

SpecRegistry == Init /\ [][NextRegistry]_vars

-----------------------------------------------------------------------------
(* The switch states resolved on their own: get_switch_states,               *)
(* get_trafo3w_switch_states and get_individual_switch_states on a dataset   *)
(* with lines, transformers and a switch table                               *)

\* The switch rows: the kind of element, the element (a device that exists, or
\* one that does not) and the bus they sit on, open or closed
SwitchRows == [et : {"l", "t", "t3"}, element : {1, 5}, bus : {1, 3}, closed : BOOLEAN]

\* The switch tables of up to MaxSwitches rows, several rows for one
\* (element, bus) included
SwitchTables ==
    {[i \in DOMAIN rows |-> [index |-> SourceIndex(Len(rows))[i], et |-> rows[i].et,
                             element |-> rows[i].element, bus |-> rows[i].bus,
                             closed |-> rows[i].closed]] :
        rows \in UNION {[1..k -> SwitchRows] : k \in 0..MaxSwitches}}

SwitchNetworks ==
    {[Network(MaxRows, {"line", "trafo", "trafo3w"}, MaxRows) EXCEPT !["switch"] = switches] :
        switches \in SwitchTables}

\* A converter holding one of these datasets
InitSwitches ==
    /\ pp_data \in SwitchNetworks
    /\ pgm_data = NoTables
    /\ idx = <<>>
    /\ idx_lookup = <<>>
    /\ next_idx = 0
    /\ pgm_output_data = NoTables
    /\ pp_output_data = NoTables
    /\ pgm_nodes_lookup = <<>>
    /\ std_types = NoTables
    /\ extra_info = <<>>
    /\ passes = 0
    /\ last_call = Call("init", Self, FALSE, FALSE, None, None, <<>>)

\* The element kind and the terminal (bus) columns of the tables with switches
Terminals(pp_table) ==
    CASE pp_table = "line" -> [et |-> "l", buses |-> <<"from_bus", "to_bus">>]
      [] pp_table = "trafo" -> [et |-> "t", buses |-> <<"hv_bus", "lv_bus">>]
      [] pp_table = "trafo3w" -> [et |-> "t3", buses |-> <<"hv_bus", "mv_bus", "lv_bus">>]

\* get_switch_states(pp_table)
GetSwitchStatesCall ==
    \E pp_table \in {"line", "trafo"} :
        LET r == get_switch_states(Self, pp_table) IN
        /\ last_call' = Call("get_switch_states", [err |-> r.err, ret |-> r.val],
                             FALSE, FALSE, pp_table, None, <<>>)
        /\ UNCHANGED <<pp_data, pgm_data, idx, idx_lookup, next_idx, pgm_output_data,
                       pp_output_data, pgm_nodes_lookup, std_types, extra_info, passes>>

\* get_trafo3w_switch_states(self.pp_data["trafo3w"])
GetTrafo3wSwitchStatesCall ==
    LET r == get_trafo3w_switch_states(Self, pp_data["trafo3w"]) IN
    /\ last_call' = Call("get_switch_states", [err |-> r.err, ret |-> r.val],
                         FALSE, FALSE, "trafo3w", None, <<>>)
    /\ UNCHANGED <<pp_data, pgm_data, idx, idx_lookup, next_idx, pgm_output_data,
                   pp_output_data, pgm_nodes_lookup, std_types, extra_info, passes>>

\* get_individual_switch_states(component, switches, bus), as get_switch_states
\* and get_trafo3w_switch_states call it
GetIndividualSwitchStatesCall ==
    \E pp_table \in {"line", "trafo", "trafo3w"} :
        \E k \in DOMAIN Terminals(pp_table).buses :
            LET bus == Terminals(pp_table).buses[k]
                r == get_individual_switch_states(pp_data[pp_table],
                                                  switches_of(Self, Terminals(pp_table).et), bus)
            IN  /\ last_call' = Call("get_individual_switch_states",
                                     [err |-> r.err, ret |-> r.val],
                                     FALSE, FALSE, pp_table, bus, <<>>)
                /\ UNCHANGED <<pp_data, pgm_data, idx, idx_lookup, next_idx, pgm_output_data,
                               pp_output_data, pgm_nodes_lookup, std_types, extra_info, passes>>

NextSwitches ==
    GetSwitchStatesCall \/ GetTrafo3wSwitchStatesCall \/ GetIndividualSwitchStatesCall

SpecSwitches == InitSwitches /\ [][NextSwitches]_vars

-----------------------------------------------------------------------------
(* The tap size computed on its own: _get_tap_size and                       *)
(* _get_3wtransformer_tap_size on a transformer table                        *)

\* What the memory of a new np.empty array can hold
Uninitialized == {0, 4321}

\* The tap columns of a transformer row: tap_side is hv, lv (mv) or missing
TapRows(sides) ==
    [tap_side : sides, tap_step_percent : {1, 2}, vn_hv_kv : {110}, vn_mv_kv : {20},
     vn_lv_kv : {10}]

\* The tables of 1 .. MaxRows rows with these tap columns
TapTables(sides) ==
    {[i \in DOMAIN rows |->
         [index |-> SourceIndex(Len(rows))[i], tap_side |-> rows[i].tap_side,
          tap_step_percent |-> rows[i].tap_step_percent, vn_hv_kv |-> rows[i].vn_hv_kv,
          vn_mv_kv |-> rows[i].vn_mv_kv, vn_lv_kv |-> rows[i].vn_lv_kv]] :
        rows \in UNION {[1..k -> TapRows(sides)] : k \in 1..MaxRows}}

\* A dataset with a trafo table or with a trafo3w table
TapNetworks ==
    {[Network(0, {}, 1) EXCEPT !["trafo"] = rows] : rows \in TapTables({"hv", "lv", None})}
        \cup {[Network(0, {}, 1) EXCEPT !["trafo3w"] = rows] :
                  rows \in TapTables({"hv", "mv", "lv", None})}

InitTapSize ==
    /\ pp_data \in TapNetworks
    /\ pgm_data = NoTables
    /\ idx = <<>>
    /\ idx_lookup = <<>>
    /\ next_idx = 0
    /\ pgm_output_data = NoTables
    /\ pp_output_data = NoTables
    /\ pgm_nodes_lookup = <<>>
    /\ std_types = NoTables
    /\ extra_info = <<>>
    /\ passes = 0
    /\ last_call = Call("init", Self, FALSE, FALSE, None, None, <<>>)

\* _get_tap_size(self.pp_data["trafo"])
GetTapSizeCall ==
    \E empty \in [DOMAIN pp_data["trafo"] -> Uninitialized] :
        /\ last_call' = Call("get_tap_size",
                             [err |-> "ok", ret |-> get_tap_size(pp_data["trafo"], empty)],
                             FALSE, FALSE, "trafo", None, <<>>)
        /\ UNCHANGED <<pp_data, pgm_data, idx, idx_lookup, next_idx, pgm_output_data,
                       pp_output_data, pgm_nodes_lookup, std_types, extra_info, passes>>

\* _get_3wtransformer_tap_size(self.pp_data["trafo3w"])
Get3wTransformerTapSizeCall ==
    \E empty \in [DOMAIN pp_data["trafo3w"] -> Uninitialized] :
        /\ last_call' = Call("get_tap_size",
                             [err |-> "ok",
                              ret |-> get_3wtransformer_tap_size(pp_data["trafo3w"], empty)],
                             FALSE, FALSE, "trafo3w", None, <<>>)
        /\ UNCHANGED <<pp_data, pgm_data, idx, idx_lookup, next_idx, pgm_output_data,
                       pp_output_data, pgm_nodes_lookup, std_types, extra_info, passes>>

NextTapSize == GetTapSizeCall \/ Get3wTransformerTapSizeCall

SpecTapSize == InitTapSize /\ [][NextTapSize]_vars

-----------------------------------------------------------------------------
(* Attribute resolution on its own: _get_pp_attr on a line table with or     *)
(* without the attribute column and the std_type column, with or without a   *)
(* type library                                                              *)

\* The attribute asked for and another one a type can have instead
Attributes == {"r_ohm_per_km", "x_ohm_per_km"}

\* Type names: "X" is in no library
TypeNames == {"A", "B", "X"}

\* The line tables of 0 .. MaxRows rows whose columns are index and any of
\* std_type, r_ohm_per_km
AttrTables ==
    {[i \in DOMAIN rows |->
         [f \in columns \cup {"index"} |->
             IF f = "index" THEN SourceIndex(Len(rows))[i] ELSE rows[i][f]]] :
        columns \in SUBSET {"std_type", "r_ohm_per_km"},
        rows \in UNION {[1..k -> [std_type : TypeNames, r_ohm_per_km : {7, 8}]] :
                            k \in 0..MaxRows}}

\* Types A and B, B with or without r_ohm_per_km
TypeLibrary ==
    {[A |-> [r_ohm_per_km |-> 3], B |-> [r_ohm_per_km |-> 4]],
     [A |-> [r_ohm_per_km |-> 3], B |-> [x_ohm_per_km |-> 5]]}

\* self._std_types: {} (no std_types given), or the types of one table
TypeLibraries ==
    {NoTables} \cup {t :> types : t \in {"line", "trafo"}, types \in TypeLibrary}

InitAttr ==
    /\ \E rows \in AttrTables : pp_data = [Network(0, {}, 1) EXCEPT !["line"] = rows]
    /\ pgm_data = NoTables
    /\ idx = <<>>
    /\ idx_lookup = <<>>
    /\ next_idx = 0
    /\ pgm_output_data = NoTables
    /\ pp_output_data = NoTables
    /\ pgm_nodes_lookup = <<>>
    /\ std_types \in TypeLibraries
    /\ extra_info = <<>>
    /\ passes = 0
    /\ last_call = Call("init", Self, FALSE, FALSE, None, None, <<>>)

\* _get_pp_attr("line", attribute, default); the call record holds the
\* attribute as name and the default as pp_idx
GetPpAttrCall ==
    \E attribute \in Attributes, default \in {<<>>, <<9>>} :
        /\ last_call' = Call("get_pp_attr", get_pp_attr(Self, "line", attribute, default),
                             FALSE, FALSE, "line", attribute, default)
        /\ UNCHANGED <<pp_data, pgm_data, idx, idx_lookup, next_idx, pgm_output_data,
                       pp_output_data, pgm_nodes_lookup, std_types, extra_info, passes>>

NextAttr == GetPpAttrCall

SpecAttr == InitAttr /\ [][NextAttr]_vars

-----------------------------------------------------------------------------
(* The forward pass over datasets with buses and a switch table of every     *)
(* kind of row: the conversion of the bus to bus switches into links         *)

\* The switch rows: bus to bus ("b"), line ("l") and trafo ("t") switches
\* between the buses 1 and 3, open or closed
LinkSwitchRows == [et : {"b", "l", "t"}, bus : {1, 3}, element : {1, 3}, closed : BOOLEAN]

\* The switch tables of 1 .. MaxSwitches rows
LinkSwitchTables ==
    {[i \in DOMAIN rows |->
         [index |-> SourceIndex(Len(rows))[i], et |-> rows[i].et, bus |-> rows[i].bus,
          element |-> rows[i].element, closed |-> rows[i].closed]] :
        rows \in UNION {[1..k -> LinkSwitchRows] : k \in 1..MaxSwitches}}

\* Datasets with MaxRows buses, no device and one of these switch tables
LinkNetworks ==
    {[Network(MaxRows, {}, 1) EXCEPT !["switch"] = switches] : switches \in LinkSwitchTables}

\* The one _parse_data(data, "input") of a new converter over such a dataset
ParseLinkData ==
    /\ passes = 0
    /\ \E data \in LinkNetworks :
          LET c == parse_data(Self, data, "input") IN
          /\ pp_data' = c.pp_data
          /\ pgm_data' = c.pgm_data
          /\ idx' = c.idx
          /\ idx_lookup' = c.idx_lookup
          /\ next_idx' = c.next_idx
          /\ passes' = passes + 1
          /\ UNCHANGED <<pgm_output_data, pp_output_data, pgm_nodes_lookup, std_types, extra_info>>
          /\ last_call' = Call("parse_data", c, FALSE, FALSE, None, None, <<>>)

NextLinks == ParseLinkData

SpecLinks == Init /\ [][NextLinks]_vars

-----------------------------------------------------------------------------
(* The output side: a forward pass, _serialize_data over the result datasets *)
(* a caller can hand in, and the output aggregators called one by one on     *)
(* the converter as these calls left it                                      *)

\* The components the node powers are accumulated over
AccumulatedComponents == {"line", "link", "transformer", "three_winding_transformer"}

\* The sets of non-empty device tables of the datasets converted back
OutputProfiles ==
    { {},
      {"line", "ext_grid"},
      {"line", "ext_grid", "load", "shunt", "trafo", "sgen", "trafo3w", "switch"} }

\* One bus more than a device row refers to: the last bus is attached to no
\* device when the tables have one row. And the dataset of one bus and one
\* ext_grid.
OutputNetworks ==
    {Network(MaxRows + 1, profile, n) : profile \in OutputProfiles, n \in {1, MaxRows}}
        \cup {Network(1, {"ext_grid"}, 1)}

\* The result datasets for a target dataset: the solver's result, with each
\* accumulated component left as it is ("rows"; one record for a component the
\* target dataset lacks), with zero records ("empty") or dropped ("absent"),
\* and with or without the other components
OutputResults(target) ==
    {[component \in {a \in AccumulatedComponents : mode[a] # "absent"}
                        \cup (IF others THEN DOMAIN target \ AccumulatedComponents ELSE {}) |->
         IF component \notin AccumulatedComponents
         THEN SolverResult(target, v)[component]
         ELSE IF mode[component] = "empty" THEN <<>>
         ELSE IF component \in DOMAIN target THEN SolverResult(target, v)[component]
         ELSE <<ResultRecord(component, [id |-> 0], 1, v)>>] :
        mode \in [AccumulatedComponents -> {"rows", "empty", "absent"}],
        others \in BOOLEAN, v \in {0, 1}}

\* The one _parse_data(data, "input") of a new converter, before any result
\* dataset is handed in
ParseOutputData ==
    /\ passes = 0
    /\ last_call.op = "init"
    /\ \E data \in OutputNetworks :
          LET c == parse_data(Self, data, "input") IN
          /\ pp_data' = c.pp_data
          /\ pgm_data' = c.pgm_data
          /\ idx' = c.idx
          /\ idx_lookup' = c.idx_lookup
          /\ next_idx' = c.next_idx
          /\ passes' = passes + 1
          /\ UNCHANGED <<pgm_output_data, pp_output_data, pgm_nodes_lookup, std_types,
                         extra_info>>
          /\ last_call' = Call("parse_data", c, FALSE, FALSE, None, None, <<>>)

\* _serialize_data(data, None), before any aggregator is called on its own
SerializeOutputData ==
    /\ last_call.op \in {"init", "parse_data"}
    /\ \E data \in OutputResults(pgm_data) :
        LET c == serialize_data(Self, data, FALSE, <<>>) IN
        /\ idx' = c.idx
        /\ idx_lookup' = c.idx_lookup
        /\ pgm_output_data' = c.pgm_output_data
        /\ pp_output_data' = c.pp_output_data
        /\ pgm_nodes_lookup' = c.pgm_nodes_lookup
        /\ last_call' = Call("serialize_data", c, FALSE, FALSE, None, None, <<>>)
        /\ UNCHANGED <<pp_data, pgm_data, next_idx, std_types, extra_info, passes>>

\* The output aggregators of one table each, by table
Aggregators == {"line", "ext_grid", "load", "shunt", "trafo", "sgen", "trafo3w"}

\* The component of pgm_data and pgm_output_data an aggregator reads
ComponentOf(pp_table) ==
    CASE pp_table = "line" -> "line"
      [] pp_table = "ext_grid" -> "source"
      [] pp_table = "load" -> "sym_load"
      [] pp_table = "shunt" -> "shunt"
      [] pp_table = "trafo" -> "transformer"
      [] pp_table = "sgen" -> "sym_gen"
      [] pp_table = "trafo3w" -> "three_winding_transformer"

pp_output(c, pp_table) ==
    CASE pp_table = "line" -> pp_lines_output(c)
      [] pp_table = "ext_grid" -> pp_ext_grids_output(c)
      [] pp_table = "load" -> pp_loads_output(c)
      [] pp_table = "shunt" -> pp_shunts_output(c)
      [] pp_table = "trafo" -> pp_trafos_output(c)
      [] pp_table = "sgen" -> pp_sgens_output(c)
      [] pp_table = "trafo3w" -> pp_trafos3w_output(c)

\* _pp_lines_output(), _pp_ext_grids_output(), ... called on the converter
PpOutputCall ==
    \E pp_table \in Aggregators :
        LET c == pp_output(Self, pp_table) IN
        /\ pp_output_data' = c.pp_output_data
        /\ last_call' = Call("pp_output", c, FALSE, FALSE, pp_table, None, <<>>)
        /\ UNCHANGED <<pp_data, pgm_data, idx, idx_lookup, next_idx, pgm_output_data,
                       pgm_nodes_lookup, std_types, extra_info, passes>>

\* The frame _pp_buses_output hands to the accumulator: a row per bus
OutputBuses ==
    new_output_buses(IF "bus" \in DOMAIN pp_data THEN Column(pp_data["bus"], "index")
                     ELSE <<>>)

\* _pp_buses_output__accumulate_power(pp_output_buses); the call record holds
\* the frame as the call left it
AccumulatePowerCall ==
    LET done == pp_buses_output__accumulate_power(Self, OutputBuses) IN
    /\ last_call' = Call("accumulate_power", [err |-> done.err, ret |-> done.frame],
                         FALSE, FALSE, "bus", None, <<>>)
    /\ UNCHANGED <<pp_data, pgm_data, idx, idx_lookup, next_idx, pgm_output_data,
                   pp_output_data, pgm_nodes_lookup, std_types, extra_info, passes>>

NextOutput == ParseOutputData \/ SerializeOutputData \/ PpOutputCall \/ AccumulatePowerCall

SpecOutput == Init /\ [][NextOutput]_vars

-----------------------------------------------------------------------------
(* Properties *)

\* The ids of a registry map, group after group in the order of creation
AllocatedIds(lookup) == Flatten([g \in DOMAIN lookup |-> SeriesIndex(lookup[g].val)])

\* C1: round trip. The ids _generate_ids returns for a table, a qualifier and a
\* non-empty list of distinct source indices are mapped back by _get_pp_ids to
\* exactly that list, in the same order.
C1_RoundTrip ==
    (last_call.op = "generate_ids" /\ last_call.err = "ok")
        => get_pp_ids(Self, last_call.table, last_call.ret, last_call.name)
               = [err |-> "ok", val |-> last_call.pp_idx]

\* A qualified group of several rows was allocated
C1_Witness ==
    /\ last_call.op = "generate_ids"
    /\ last_call.err = "ok"
    /\ last_call.name # None
    /\ Len(last_call.pp_idx) >= 2
    /\ last_call.ret # last_call.pp_idx

\* C2: after a conversion pass (one that raised part-way included) the ids
\* allocated in it are pairwise distinct, are exactly 0 .. next_idx - 1, every id
\* of a group created later is greater than every id of a group created earlier,
\* and the forward map holds the same ids for each of these groups.
C2_UniqueContiguousOrdered ==
    last_call.op = "parse_data" =>
        LET ids == AllocatedIds(idx_lookup) IN
        /\ \A i, j \in DOMAIN ids : i # j => ids[i] # ids[j]
        /\ {ids[i] : i \in DOMAIN ids} = 0..(next_idx - 1)
        /\ \A g, h \in DOMAIN idx_lookup :
               g < h => \A a \in DOMAIN idx_lookup[g].val, b \in DOMAIN idx_lookup[h].val :
                            idx_lookup[g].val[a][1] < idx_lookup[h].val[b][1]
        /\ \A g \in DOMAIN idx_lookup :
               /\ DictHas(idx, idx_lookup[g].key)
               /\ SeriesValues(DictGet(idx, idx_lookup[g].key)) = SeriesIndex(idx_lookup[g].val)

\* A second pass that allocated the three load groups and the bus_to_bus group
C2_Witness ==
    /\ last_call.op = "parse_data"
    /\ last_call.err = "ok"
    /\ passes = 2
    /\ {<<"bus", None>>, <<"load", "const_power">>, <<"load", "const_impedance">>,
        <<"load", "const_current">>, <<"switch", "bus_to_bus">>} \subseteq DictKeys(idx_lookup)
    /\ Len(DictGet(idx_lookup, <<"switch", "bus_to_bus">>)) > 0
    /\ next_idx > 2 * MaxRows

\* The labels of a series are distinct, and so are its values
OneToOne(series) ==
    \A i, j \in DOMAIN series :
        i # j => (series[i][1] # series[j][1] /\ series[i][2] # series[j][2])

\* No id is held by two groups of a registry map (ids: 1 for the labels of
\* idx_lookup, 2 for the values of idx)
GroupsDisjoint(map, ids) ==
    \A g, h \in DOMAIN map :
        g # h => \A a \in DOMAIN map[g].val, b \in DOMAIN map[h].val :
                     map[g].val[a][ids] # map[h].val[b][ids]

\* C3: in every registry state every target id belongs to exactly one group,
\* and within each group source indices and target ids are in bijection.
C3_PartitionAndBijection ==
    /\ GroupsDisjoint(idx_lookup, 1)
    /\ GroupsDisjoint(idx, 2)
    /\ \A g \in DOMAIN idx_lookup : OneToOne(idx_lookup[g].val)
    /\ \A g \in DOMAIN idx : OneToOne(idx[g].val)

\* The registry a forward pass over the current dataset allocates
Allocated == parse_data(NewConverter, pp_data, "input")

\* C4: sidecar equivalence. On a registry rebuilt from the sidecar of the last
\* forward pass, _get_ids and _get_pp_ids return, for every id of the sidecar,
\* what they return on the registry that pass allocated.
C4_SidecarEquivalence ==
    (last_call.op = "serialize_data" /\ last_call.extra) =>
        \A e \in DOMAIN extra_info :
            LET ref == extra_info[e].val
                pgm_id == extra_info[e].key
            IN  /\ get_ids(Self, ref.table, <<ref.index>>, ref.name)
                       = get_ids(Allocated, ref.table, <<ref.index>>, ref.name)
                /\ get_pp_ids(Self, ref.table, <<pgm_id>>, ref.name)
                       = get_pp_ids(Allocated, ref.table, <<pgm_id>>, ref.name)

\* C5: after a pass both registry maps hold exactly the groups allocated in
\* that pass, so that a group of an earlier pass only is unknown to _get_ids
\* and get_id.
C5_ResetEachPass ==
    last_call.op = "parse_data" =>
        /\ DictKeys(idx) = DictKeys(idx_lookup)
        /\ \A key \in Groups \ DictKeys(idx_lookup) :
               /\ get_ids(Self, key[1], <<>>, key[2]).err = "KeyError"
               /\ \A pp_idx \in 1..(2 * MaxRows) :
                      get_id(Self, key[1], pp_idx, key[2]).err = "KeyError"

\* The registry holds ids for the group (pp_table, name): under that key, or,
\* rebuilt from a sidecar that names the group, under the table
GroupHeld(pp_table, name) ==
    \/ DictHas(idx_lookup, <<pp_table, name>>)
    \/ /\ DictHas(idx_lookup, <<pp_table>>)
       /\ \E e \in DOMAIN extra_info :
              extra_info[e].val.table = pp_table /\ extra_info[e].val.name = name

\* C7: _generate_ids for a group the registry already holds raises, and leaves
\* both maps and next_idx as they were.
C7_DuplicateGroupRejected ==
    [][(last_call'.op = "generate_ids" /\ GroupHeld(last_call'.table, last_call'.name))
          => (last_call'.err = "AssertionError" /\ UNCHANGED <<idx, idx_lookup, next_idx>>)]_vars

\* C8: for a group that was not allocated in the current registry _get_ids and
\* _get_pp_ids raise KeyError, and for one that was they return ids of that
\* group only.
C8_UnknownGroupRaises ==
    /\ \A key \in Groups \ DictKeys(idx_lookup) :
           /\ get_ids(Self, key[1], <<>>, key[2]).err = "KeyError"
           /\ get_pp_ids(Self, key[1], <<>>, key[2]).err = "KeyError"
    /\ \A key \in Groups \cap DictKeys(idx_lookup) :
           LET held == DictGet(idx_lookup, key)
               found == get_ids(Self, key[1], SeriesValues(held), key[2])
               back == get_pp_ids(Self, key[1], SeriesIndex(held), key[2])
           IN  /\ found.err = "ok" /\ found.val = SeriesIndex(held)
               /\ back.err = "ok" /\ back.val = SeriesValues(held)

\* The (table, name, source index) an id was registered under: by the key of
\* its group, or, in a registry rebuilt from the sidecar, by the sidecar
Registered(g, r) ==
    LET key == idx_lookup[g].key
        pgm_id == idx_lookup[g].val[r][1]
    IN  [table |-> key[1],
         name |-> IF Len(key) = 2 THEN key[2] ELSE DictGet(extra_info, pgm_id).name,
         index |-> <<idx_lookup[g].val[r][2]>>]

\* C9: lookup_id returns, for every id the registry holds, what the id was
\* registered under, and raises KeyError for every other id.
C9_LookupId ==
    /\ \A g \in DOMAIN idx_lookup : \A r \in DOMAIN idx_lookup[g].val :
           lookup_id(Self, idx_lookup[g].val[r][1]) = [err |-> "ok", val |-> Registered(g, r)]
    /\ \A pgm_id \in 0..(Cardinality(Groups) * MaxRows) :
           (\A g \in DOMAIN idx_lookup : ~SeriesContains(idx_lookup[g].val, pgm_id))
               => lookup_id(Self, pgm_id).err = "KeyError"

\* The sym_load record of a load row: the one with the id of (load, name, index)
SymLoad(index, name) ==
    LET pgm_id == get_id(Self, "load", index, name).val[1] IN
    pgm_data["sym_load"][CHOOSE i \in DOMAIN pgm_data["sym_load"] :
                             pgm_data["sym_load"][i].id = pgm_id]

\* C10: the powers of the three target records of a load row add up to
\* p_mw * scaling * 1e6 and q_mvar * scaling * 1e6.
C10_LoadSplitPreservesPower ==
    (last_call.op = "parse_data" /\ last_call.err = "ok" /\ "sym_load" \in DOMAIN pgm_data) =>
        \A i \in DOMAIN pp_data["load"] :
            LET row == pp_data["load"][i]
                cp == SymLoad(row.index, "const_power")
                cz == SymLoad(row.index, "const_impedance")
                ci == SymLoad(row.index, "const_current")
            IN  /\ cp.p_specified + cz.p_specified + ci.p_specified
                       = row.p_mw * row.scaling * 1000000
                /\ cp.q_specified + cz.q_specified + ci.q_specified
                       = row.q_mvar * row.scaling * 1000000

\* C6: determinism. Of two consecutive forward passes over the same dataset on
\* one converter, the second assigns the ids the first assigned: the same id
\* for every (table, qualifier, source index), the same target records, the
\* same outcome. And the first pass of a converter assigns the ids that a new
\* converter assigns for that dataset.
C6_Deterministic ==
    [][/\ (/\ last_call.op = "parse_data" /\ last_call.err # "ValueError"
           /\ last_call'.op = "parse_data" /\ last_call'.err # "ValueError"
           /\ last_call'.repeat)
             => /\ last_call'.err = last_call.err
                /\ idx_lookup' = idx_lookup
                /\ next_idx' = next_idx
                /\ pgm_data' = pgm_data
                /\ \A key \in DictKeys(idx_lookup) :
                       DictHas(idx', key) /\ DictGet(idx', key) = DictGet(idx, key)
       /\ (passes = 0 /\ last_call'.op = "parse_data" /\ last_call'.err # "ValueError")
             => LET fresh == parse_data(NewConverter, pp_data', "input")
                IN  /\ last_call'.err = fresh.err
                    /\ idx_lookup' = fresh.idx_lookup
                    /\ idx' = fresh.idx
                    /\ next_idx' = fresh.next_idx
                    /\ pgm_data' = fresh.pgm_data]_vars

\* The second of two consecutive passes over the same dataset, with ids
\* allocated for devices
C6_Witness ==
    /\ last_call.op = "parse_data"
    /\ last_call.err = "ok"
    /\ last_call.repeat
    /\ passes = 2
    /\ next_idx > MaxRows


\* The rows of the switch table of the kind of pp_table that sit on the
\* terminal bus_column of the device row i
MatchingSwitches(pp_table, i, bus_column) ==
    {j \in DOMAIN pp_data["switch"] :
        /\ pp_data["switch"][j].et = Terminals(pp_table).et
        /\ pp_data["switch"][j].element = pp_data[pp_table][i].index
        /\ pp_data["switch"][j].bus = pp_data[pp_table][i][bus_column]}

C19_OneStatePerDeviceRow ==
    last_call.op = "get_individual_switch_states" =>
        LET rows == pp_data[last_call.table] IN
        /\ last_call.err = "ok"
        /\ Len(last_call.ret) = Len(rows)
        /\ \A i \in DOMAIN rows :
               /\ last_call.ret[i][1] = rows[i].index
               /\ last_call.ret[i][2] \in BOOLEAN


\* The nominal voltage in kV of the side a row's tap_side names
TapSideVoltage(row) ==
    CASE row.tap_side = "hv" -> row.vn_hv_kv
      [] row.tap_side = "mv" -> row.vn_mv_kv
      [] row.tap_side = "lv" -> row.vn_lv_kv

\* C20: tap size. The result of _get_tap_size / _get_3wtransformer_tap_size
\* has one entry per row; for a row whose tap_side names a side it is
\* tap_step_percent * 1e-2 * (nominal voltage of that side in kV) * 1e3, and
\* every entry, that of a row with a missing tap side included, is defined:
\* it is what the function returns for these rows whatever the memory held.
C20_TapSize ==
    last_call.op = "get_tap_size" =>
        LET rows == pp_data[last_call.table] IN
        /\ Len(last_call.ret) = Len(rows)
        /\ \A i \in DOMAIN rows :
               rows[i].tap_side # None
                   => last_call.ret[i] = rows[i].tap_step_percent * 10 * TapSideVoltage(rows[i])
        /\ \A empty \in [DOMAIN rows -> Uninitialized] :
               last_call.ret = IF last_call.table = "trafo"
                               THEN get_tap_size(rows, empty)
                               ELSE get_3wtransformer_tap_size(rows, empty)


\* The types of the table the last call read, when the library has them
TypesOf(pp_table) == std_types[pp_table]

BusToBusRows == {i \in DOMAIN pp_data["switch"] : pp_data["switch"][i].et = "b"}

\* The target ids the registry holds for the bus of source index bus
NodeOf(bus) == SeriesLoc(DictGet(idx, <<"bus", None>>), bus)

\* C18: after a forward pass over a dataset with switch rows the link family
\* has one record per switch row whose et is "b" and no other record; the
\* record's from_node and to_node are the target ids of the row's bus and
\* element, from_status and to_status are the row's closed flag, and its id is
\* the one registered for the row's index in the group ("switch",
\* "bus_to_bus").
C18_LinkConversion ==
    (last_call.op = "parse_data" /\ last_call.err = "ok" /\ pp_data["switch"] # <<>>) =>
        /\ "link" \in DOMAIN pgm_data
        /\ Len(pgm_data["link"]) = Cardinality(BusToBusRows)
        /\ DictHas(idx_lookup, <<"switch", "bus_to_bus">>)
        /\ Len(DictGet(idx_lookup, <<"switch", "bus_to_bus">>)) = Cardinality(BusToBusRows)
        /\ \A i \in BusToBusRows :
               LET row == pp_data["switch"][i] IN
               \E k \in DOMAIN pgm_data["link"] :
                   LET link == pgm_data["link"][k] IN
                   /\ SeriesContains(DictGet(idx_lookup, <<"switch", "bus_to_bus">>), link.id)
                   /\ SeriesLoc(DictGet(idx_lookup, <<"switch", "bus_to_bus">>), link.id)
                          = <<row.index>>
                   /\ link.nodes = << <<"from_node", NodeOf(row.bus)[1]>>,
                                      <<"to_node", NodeOf(row.element)[1]>> >>
                   /\ link.from_status = row.closed
                   /\ link.to_status = row.closed

\* A pass over an open bus to bus switch between two buses and a switch of
\* another kind
C18_Witness ==
    /\ last_call.op = "parse_data"
    /\ last_call.err = "ok"
    /\ Len(pp_data["switch"]) = 2
    /\ Cardinality(BusToBusRows) = 1
    /\ "link" \in DOMAIN pgm_data
    /\ \E k \in DOMAIN pgm_data["link"] :
           /\ ~pgm_data["link"][k].from_status
           /\ pgm_data["link"][k].nodes[1][2] # pgm_data["link"][k].nodes[2][2]


\* The target record of a result record: the one with its id
TargetRecord(component, k) ==
    CHOOSE r \in DOMAIN pgm_data[component] :
        pgm_data[component][r].id = pgm_output_data[component][k].id

\* The terminals of the result set: <<i, j, k>> is side j of the k-th result
\* record of the i-th component of component_sides, the device of the record
\* being in the target dataset
ResultTerminals ==
    UNION {{<<i, j, k>> : j \in DOMAIN component_sides[i].sides,
                          k \in {k \in DOMAIN pgm_output_data[component_sides[i].component] :
                                     \E r \in DOMAIN pgm_data[component_sides[i].component] :
                                         pgm_data[component_sides[i].component][r].id
                                             = pgm_output_data[component_sides[i].component][k].id}} :
           i \in {i \in DOMAIN component_sides :
                      /\ component_sides[i].component \in DOMAIN pgm_output_data
                      /\ component_sides[i].component \in DOMAIN pgm_data}}

\* The source index of the bus a terminal is attached to in the target dataset
TerminalBus(t) ==
    SeriesLoc(DictGet(idx_lookup, <<"bus", None>>),
              NodeColumn(pgm_data[component_sides[t[1]].component],
                         component_sides[t[1]].sides[t[2]][1])[
                  TargetRecord(component_sides[t[1]].component, t[3])])[1]

\* The active (col = 2) or reactive (col = 3) power of a terminal, in W
TerminalPower(t, col) ==
    pgm_output_data[component_sides[t[1]].component][t[3]][component_sides[t[1]].sides[t[2]][col]]

RECURSIVE SumOver(_, _)
SumOver(terminals, col) ==
    IF terminals = {} THEN 0
    ELSE LET t == CHOOSE t \in terminals : TRUE
         IN  TerminalPower(t, col) + SumOver(terminals \ {t}, col)

\* The total over the terminals attached to a bus
BusTotal(bus, col) == SumOver({t \in ResultTerminals : TerminalBus(t) = bus}, col)

\* The orders n things can be taken in
Orders(n) == {o \in [1..n -> 1..n] : \A a, b \in 1..n : o[a] = o[b] => a = b}

\* component_sides with the components in the order given
ComponentsIn(order) == [i \in DOMAIN component_sides |-> component_sides[order[i]]]

\* component_sides with the sides of every component in the order given: two
\* sided components take their order from the first two entries
SidesIn(order) ==
    [i \in DOMAIN component_sides |->
        [component |-> component_sides[i].component,
         sides |-> IF Len(component_sides[i].sides) = 3
                   THEN [j \in 1..3 |-> component_sides[i].sides[order[j]]]
                   ELSE IF order[1] < order[2] THEN component_sides[i].sides
                   ELSE <<component_sides[i].sides[2], component_sides[i].sides[1]>>]]

\* C12: the powers the accumulator leaves for a bus are the sums, over the
\* line, link, transformer and three_winding_transformer terminals attached to
\* the bus, of the terminal's p and q, over 1e6 (one division of the sum), and
\* the accumulator gives the same frame whatever the order the components, and
\* the sides of the components, are taken in.
C12_AccumulationOrderIndependent ==
    (last_call.op = "accumulate_power" /\ last_call.err = "ok") =>
        /\ \A b \in DOMAIN last_call.ret :
               /\ last_call.ret[b].p_mw
                      = Quotient(BusTotal(last_call.ret[b].index, 2), 1000000)
               /\ last_call.ret[b].q_mvar
                      = Quotient(BusTotal(last_call.ret[b].index, 3), 1000000)
        /\ \A order \in Orders(Len(component_sides)) :
               accumulate_power(Self, OutputBuses, ComponentsIn(order))
                   = [err |-> "ok", frame |-> last_call.ret]
        /\ \A order \in Orders(3) :
               /\ accumulate_power(Self, OutputBuses, SidesIn(order))
                      = [err |-> "ok", frame |-> last_call.ret]
               /\ accumulate_power(Self, OutputBuses,
                                   ComponentsIn([i \in 1..4 |-> 5 - i]))
                      = accumulate_power(Self, OutputBuses,
                                         [i \in 1..4 |-> SidesIn(order)[5 - i]])

\* A bus that terminals of three components are attached to, with powers that
\* do not cancel
C12_Witness ==
    /\ last_call.op = "accumulate_power"
    /\ last_call.err = "ok"
    /\ \E b \in DOMAIN last_call.ret :
           /\ last_call.ret[b].p_mw.num # 0
           /\ last_call.ret[b].q_mvar.num # 0
           /\ Cardinality({t[1] : t \in {t \in ResultTerminals :
                                             TerminalBus(t) = last_call.ret[b].index}}) >= 3

\* The accumulated components that the result dataset lacks or has no record of
WithoutResult ==
    {a \in AccumulatedComponents : a \notin DOMAIN pgm_output_data \/ pgm_output_data[a] = <<>>}

\* component_sides without the entries of these components
ComponentsWithout(components) ==
    SelectSeq(component_sides, LAMBDA entry : entry.component \notin components)

\* A bus that no record of an accumulated component of the target dataset
\* refers to
Unattached(bus) ==
    \A a \in AccumulatedComponents \cap DOMAIN pgm_data :
        \A k \in DOMAIN pgm_data[a] : \A n \in DOMAIN pgm_data[a][k].nodes :
            SeriesLoc(DictGet(idx_lookup, <<"bus", None>>), pgm_data[a][k].nodes[n][2])[1]
                # bus

\* C13: a component that the result dataset lacks, or has zero records of,
\* raises no error (the call succeeds when every other component of the result
\* dataset is in the target dataset) and adds nothing (the frame is the one
\* the accumulator gives without these components); a bus that no device of
\* these components is attached to is left with p_mw = 0 and q_mvar = 0.
C13_AbsentFamilyContributesNothing ==
    last_call.op = "accumulate_power" =>
        /\ ((AccumulatedComponents \ WithoutResult) \subseteq DOMAIN pgm_data)
               => last_call.err = "ok"
        /\ accumulate_power(Self, OutputBuses, ComponentsWithout(WithoutResult))
               = [err |-> last_call.err, frame |-> last_call.ret]
        /\ last_call.err = "ok" =>
               \A b \in DOMAIN last_call.ret :
                   Unattached(last_call.ret[b].index) =>
                       /\ last_call.ret[b].p_mw = Quotient(0, 1000000)
                       /\ last_call.ret[b].q_mvar = Quotient(0, 1000000)

\* The result dataset has records of the lines, zero records of another
\* component and no entry for a third one; one bus is attached to no device
\* and another one is left with a power
C13_Witness ==
    /\ last_call.op = "accumulate_power"
    /\ last_call.err = "ok"
    /\ "line" \notin WithoutResult
    /\ \E a \in WithoutResult : a \in DOMAIN pgm_output_data
    /\ \E a \in WithoutResult : a \notin DOMAIN pgm_output_data
    /\ \E b \in DOMAIN last_call.ret : Unattached(last_call.ret[b].index)
    /\ \E b \in DOMAIN last_call.ret : last_call.ret[b].p_mw.num # 0

\* C14: after a forward pass over one bus and one ext_grid, with the result
\* record of the source (the allocated id, p = 1e5, q = 5e4) as result dataset,
\* _pp_ext_grids_output returns and leaves the ext_grid table with one row,
\* indexed by the source index of the ext_grid, with p_mw = 0.1 and
\* q_mvar = 0.05.
C14_ExtGridEndToEnd ==
    (/\ last_call.op = "pp_output"
     /\ last_call.table = "ext_grid"
     /\ "bus" \in DOMAIN pp_data
     /\ Len(pp_data["bus"]) = 1
     /\ Len(pp_data["ext_grid"]) = 1
     /\ "source" \in DOMAIN pgm_output_data
     /\ pgm_output_data["source"]
            = <<[id |-> pgm_data["source"][1].id, p |-> 100000, q |-> 50000]>>) =>
        /\ last_call.err = "ok"
        /\ "ext_grid" \in DOMAIN pp_output_data
        /\ Len(pp_output_data["ext_grid"]) = 1
        /\ pp_output_data["ext_grid"][1].index = pp_data["ext_grid"][1].index
        /\ pp_output_data["ext_grid"][1].columns.p_mw.num * 10
               = pp_output_data["ext_grid"][1].columns.p_mw.den
        /\ pp_output_data["ext_grid"][1].columns.q_mvar.num * 20
               = pp_output_data["ext_grid"][1].columns.q_mvar.den

\* C17: an aggregator called when the component it reads is missing from the
\* target dataset or from the result dataset raises (AssertionError for the
\* target dataset, KeyError for the result dataset) and leaves the converter
\* without an output table of its name; the accumulator raises KeyError when
\* the result dataset has records of a component the target dataset lacks.
C17_MissingPrerequisiteFails ==
    /\ last_call.op = "pp_output" =>
           /\ ComponentOf(last_call.table) \notin DOMAIN pgm_data
                  => (last_call.err = "AssertionError"
                      /\ last_call.table \notin DOMAIN pp_output_data)
           /\ (/\ ComponentOf(last_call.table) \in DOMAIN pgm_data
               /\ ComponentOf(last_call.table) \notin DOMAIN pgm_output_data)
                  => (last_call.err = "KeyError"
                      /\ last_call.table \notin DOMAIN pp_output_data)
    /\ last_call.op = "accumulate_power" =>
           ((AccumulatedComponents \ WithoutResult) \ DOMAIN pgm_data # {}
                => last_call.err = "KeyError")

\* The accumulator called with result records of lines on a converter whose
\* target dataset has no line
C17_Witness ==
    /\ last_call.op = "accumulate_power"
    /\ last_call.err = "KeyError"
    /\ "line" \in DOMAIN pgm_output_data
    /\ pgm_output_data["line"] # <<>>
    /\ "line" \notin DOMAIN pgm_data
    /\ "node" \in DOMAIN pgm_data

\* The target components in the order _create_input_data makes them, and the
\* source table each is made from
ComponentAt ==
    <<"node", "line", "source", "sym_load", "shunt", "transformer", "sym_gen",
      "three_winding_transformer", "link">>

TableAt == <<"bus", "line", "ext_grid", "load", "shunt", "trafo", "sgen", "trafo3w", "switch">>

\* The call of _create_input_data that raises, from its k-th call on; 0 when
\* none does
RECURSIVE FailingCall(_, _)
FailingCall(c, k) ==
    IF k > 9 THEN 0
    ELSE IF create_input_data_call(c, k).err # "ok" THEN k
    ELSE FailingCall(create_input_data_call(c, k), k + 1)

\* The number of target records the k-th component has for a source dataset
RecordsOf(data, k) ==
    CASE k = 4 -> 3 * Len(data["load"])
      [] k = 9 -> Len(SelectSeq(data["switch"], LAMBDA row : row.et = "b"))
      [] OTHER -> Len(data[TableAt[k]])

\* C16: a forward pass that fails leaves the converter without target data for
\* the component whose converter raised and for every component after it, each
\* component it holds is whole (one record per source row, three per load row,
\* each with its id in the registry) and the sidecar of the pass is not
\* written; a reverse pass that fails leaves the converter without an output
\* table.
C16_NoPartialResults ==
    [][/\ (last_call'.op = "parse_data" /\ last_call'.err # "ok") =>
              LET k == FailingCall([Self EXCEPT !.pgm_data = NoTables, !.idx_lookup = <<>>,
                                                !.next_idx = 0, !.pp_data = pp_data'], 1)
              IN  /\ \A j \in 1..9 :
                         (k = 0 \/ j >= k) => ComponentAt[j] \notin DOMAIN pgm_data'
                  /\ \A j \in 1..9 :
                         ComponentAt[j] \in DOMAIN pgm_data' =>
                             /\ Len(pgm_data'[ComponentAt[j]]) = RecordsOf(pp_data', j)
                             /\ \A i \in DOMAIN pgm_data'[ComponentAt[j]] :
                                    /\ pgm_data'[ComponentAt[j]][i].id \in 0..(next_idx' - 1)
                                    /\ j \in {2, 3, 5, 6, 7, 8, 9} =>
                                           pgm_data'[ComponentAt[j]][i].nodes # <<>>
                  /\ extra_info' = <<>>
       /\ (last_call'.op = "serialize_data" /\ last_call'.err # "ok") =>
              pp_output_data' = NoTables]_vars

\* A forward pass that converted the buses and then failed on a later table
\* with rows
C16_Witness ==
    /\ last_call.op = "parse_data"
    /\ last_call.err # "ok"
    /\ "node" \in DOMAIN pgm_data
    /\ \E j \in 2..9 : pp_data[TableAt[j]] # <<>> /\ ComponentAt[j] \notin DOMAIN pgm_data

\* C21: for every record of the three winding transformers of the result
\* dataset, _pp_trafos3w_output reads fields the record has, q_lv_mvar is
\* q_3 * 1e-6 and ql_mvar is (q_1 + q_2 + q_3) * 1e-6.
C21_Trafo3wReactiveLoss ==
    "three_winding_transformer" \in DOMAIN pgm_output_data =>
        \A i \in DOMAIN pgm_output_data["three_winding_transformer"] :
            /\ output_fields("trafo3w")
                   \subseteq DOMAIN pgm_output_data["three_winding_transformer"][i]
            /\ output_columns("trafo3w", pgm_output_data["three_winding_transformer"][i]).q_lv_mvar
                   = Quotient(pgm_output_data["three_winding_transformer"][i].q_3, 1000000)
            /\ output_columns("trafo3w", pgm_output_data["three_winding_transformer"][i]).ql_mvar
                   = Quotient(pgm_output_data["three_winding_transformer"][i].q_1
                                  + pgm_output_data["three_winding_transformer"][i].q_2
                                  + pgm_output_data["three_winding_transformer"][i].q_3,
                              1000000)

\* C22: an aggregator called after a forward pass that converted its component,
\* with result records of the component, finds every group it passes to
\* _get_pp_ids in the registry.
C22_AggregatorsUseForwardGroups ==
    (/\ last_call.op = "pp_output"
     /\ passes > 0
     /\ ComponentOf(last_call.table) \in DOMAIN pgm_data
     /\ ComponentOf(last_call.table) \in DOMAIN pgm_output_data) =>
        \A key \in output_groups(last_call.table) : DictHas(idx_lookup, key)

\* The ids of the records of the target dataset
StoredIds == UNION {{pgm_data[component][i].id : i \in DOMAIN pgm_data[component]} :
                       component \in DOMAIN pgm_data}

RECURSIVE StoredRecords(_)
StoredRecords(components) ==
    IF components = {} THEN 0
    ELSE LET component == CHOOSE component \in components : TRUE
         IN  Len(pgm_data[component]) + StoredRecords(components \ {component})

\* C23: after every forward pass, one that raised part-way included, the ids
\* the registry holds are the ids of the records of pgm_data, and next_idx is
\* the number of these records.
C23_RegistryMatchesTarget ==
    last_call.op = "parse_data" =>
        /\ {AllocatedIds(idx_lookup)[i] : i \in DOMAIN AllocatedIds(idx_lookup)} = StoredIds
        /\ next_idx = StoredRecords(DOMAIN pgm_data)

\* C24: after every forward pass the source dataset is one of the datasets a
\* caller passes: the tables it had, with the rows and columns they had.
C24_SourceDatasetUnchanged ==
    last_call.op = "parse_data" => pp_data \in Networks \cup DanglingNetworks

=============================================================================
